---- MODULE Spec2Model ----
(***************************************************************************)
(* Market breadth analyser: the classification-and-scoring pipeline of     *)
(* analysis.py (BreadthAnalyzer, HistoryManager) with the thresholds of    *)
(* config.py.                                                              *)
(*                                                                         *)
(* Number representation.  data_fetcher.fetch_quote rounds pct_change and  *)
(* volume_ratio to 2 decimals, so both are modelled as integers in         *)
(* hundredths (pct_change 2.00 is 200).  Scores are rounded to             *)
(* Display.SCORE_DECIMALS = 3 decimals when stored and are modelled as     *)
(* integers in thousandths (0.8 is 800); participation_pct is rounded to   *)
(* Display.PERCENT_DECIMALS = 2 decimals and modelled in hundredths of a   *)
(* percent (40 % is 4000).  The thresholds are scaled the same way.        *)
(***************************************************************************)
EXTENDS Integers, Sequences, FiniteSets, TLC

(***************************************************************************)
(* Bounds of the model                                                     *)
(***************************************************************************)
\* largest number of rows of an enumerated input table
MaxRows == 2
\* number of calls of classify_regime that are counted
MaxRegimeCalls == 2

(***************************************************************************)
(* config.py: Thresholds, Display                                          *)
(***************************************************************************)
STRONG_MOVE == 200
MODERATE_MOVE == 100
EXPLOSIVE_MOVE == 500
STRONG_EXPLOSIVE == 300
VOLUME_MULTIPLIER == 100
EXTREME_BULL == 800
STRONG_BULL == 400
WEAK_BULL == 150
NO_TRADE_LOW == -150
WEAK_BEAR == -400
STRONG_BEAR == -800
WEAK_PARTICIPATION == 4000
\* 10^SCORE_DECIMALS and 10^PERCENT_DECIMALS: units per 1.0 of a stored value
SCORE_UNITS == 1000
PERCENT_UNITS == 100

(***************************************************************************)
(* config.py: the part of the instrument universe that the small tables    *)
(* draw from, in the order of FNO_STOCKS, and the sector map.              *)
(***************************************************************************)
FNO_STOCKS ==
  << "^INDIAVIX", "AXISBANK", "WIPRO", "INFY",
     "UNIONBANK", "KOTAKBANK", "PNB", "INDIANB", "TECHM", "HDFCBANK" >>

SECTORS ==
  "Bank" :>
      { "AXISBANK", "KOTAKBANK", "HDFCBANK", "ICICIBANK", "SBIN",
        "INDUSINDBK", "IDFCFIRSTB", "BANDHANBNK", "AUBANK", "YESBANK",
        "PNB", "CANBK", "UNIONBANK", "BANKINDIA", "BANKBARODA", "INDIANB",
        "FEDERALBNK", "RBLBANK" } @@
  "IT & Software" :>
      { "TCS", "INFY", "WIPRO", "HCLTECH", "TECHM", "LTIM", "COFORGE",
        "PERSISTENT", "MPHASIS", "KPITTECH", "TATAELXSI", "CYIENT", "OFSS" } @@
  "Auto & Auto Components" :>
      { "MARUTI", "TVSMOTOR", "BAJAJ-AUTO", "ASHOKLEY", "EICHERMOT", "M&M",
        "HEROMOTOCO", "EXIDEIND", "MOTHERSON", "BHARATFORG", "SONACOMS",
        "UNOMINDA" } @@
  "Metal & Mining" :>
      { "TATASTEEL", "JSWSTEEL", "HINDALCO", "VEDL", "JINDALSTEL", "SAIL",
        "COALINDIA", "NMDC", "NATIONALUM", "HINDZINC" } @@
  "Pharma & Healthcare" :>
      { "SUNPHARMA", "CIPLA", "DRREDDY", "DIVISLAB", "LUPIN", "BIOCON",
        "ALKEM", "AUROPHARMA", "TORNTPHARM", "GLENMARK", "ZYDUSLIFE",
        "LAURUSLABS", "MANKIND", "SYNGENE", "PPLPHARMA", "APOLLOHOSP",
        "MAXHEALTH", "FORTIS" } @@
  "Energy & Power" :>
      { "RELIANCE", "ONGC", "BPCL", "IOC", "HINDPETRO", "OIL", "GAIL",
        "IGL", "PETRONET", "NTPC", "POWERGRID", "TATAPOWER", "TORNTPOWER",
        "JSWENERGY", "ADANIGREEN", "ADANIENSOL", "SUZLON", "IREDA", "NHPC" } @@
  "FMCG & Consumer" :>
      { "HINDUNILVR", "ITC", "NESTLEIND", "BRITANNIA", "DABUR", "MARICO",
        "GODREJCP", "COLPAL", "TATACONSUM", "JUBLFOOD", "VBL", "PATANJALI" } @@
  "Infrastructure & Construction" :>
      { "LT", "NCC", "NBCC", "RVNL", "IRFC", "TITAGARH", "MAZDOCK",
        "ADANIPORTS", "CONCOR", "GMRAIRPORT" } @@
  "Real Estate" :>
      { "DLF", "GODREJPROP", "OBEROIRLTY", "PRESTIGE", "LODHA", "PHOENIXLTD" } @@
  "Financial Services" :>
      { "BAJFINANCE", "BAJAJFINSV", "SHRIRAMFIN", "CHOLAFIN", "MFSL",
        "LICHSGFIN", "MUTHOOTFIN", "MANAPPURAM", "ABCAPITAL", "IIFL",
        "PNBHOUSING", "HUDCO", "RECLTD", "PFC", "NUVAMA", "360ONE",
        "SAMMAANCAP", "ANGELONE" } @@
  "Insurance" :>
      { "SBILIFE", "HDFCLIFE", "ICICIPRULI", "ICICIGI", "LICI", "POLICYBZR" } @@
  "Capital Goods & Defense" :>
      { "SIEMENS", "ABB", "BHEL", "HAL", "BEL", "BDL", "CUMMINSIND",
        "BOSCHLTD", "VOLTAS", "BLUESTARCO", "CROMPTON", "HAVELLS",
        "POLYCAB", "KEI", "PGEL" } @@
  "Telecom" :>
      { "BHARTIARTL", "IDEA", "INDUSTOWER", "HFCL" } @@
  "Cement" :>
      { "ULTRACEMCO", "SHREECEM", "AMBUJACEM", "DALBHARAT" } @@
  "Chemicals" :>
      { "UPL", "SRF", "PIDILITIND", "TATACHEM", "AARTI", "DEEPAKNTR",
        "GNFC", "CHAMBAL", "COROMANDEL" } @@
  "Retail & E-commerce" :>
      { "DMART", "TRENT", "NYKAA", "TITAN", "KALYANKJIL" } @@
  "Technology & Platforms" :>
      { "PAYTM", "NAUKRI", "JIOFIN", "INDIGO", "IRCTC", "DELHIVERY", "CDSL",
        "BSE", "MCX", "IEX", "KFINTECH", "CAMS" } @@
  "Industrials & Materials" :>
      { "GRASIM", "SUPREMEIND", "ASTRAL", "APLAPOLLO", "DIXON", "AMBER",
        "CGPOWER", "SOLARINDS", "INOXWIND", "ETERNAL", "KAYNES", "TATATECH",
        "UNITDSPR", "TIINDIA" } @@
  "Hospitality & Leisure" :>
      { "INDHOTEL" } @@
  "Asset Management" :>
      { "HDFCAMC" } @@
  "Diversified" :>
      { "LTF", "ADANIENT", "PIIND", "PAGEIND" }

SectorNames == DOMAIN SECTORS

RegimeKeys ==
  << "EXTREME_BULL", "STRONG_BULL", "WEAK_BULL", "NO_TRADE",
     "WEAK_BEAR", "STRONG_BEAR", "EXTREME_BEAR" >>

\* REGIMES[key]: display name and action text; the action text is a sequence
\* of text pieces so that an appended warning can be counted
REGIMES_TABLE ==
  [ k \in { RegimeKeys[i] : i \in 1..Len(RegimeKeys) } |->
      [ name |-> k, action |-> << k >> ] ]

NARROW_WARNING == "WARNING: Narrow leadership"

(***************************************************************************)
(* Arithmetic helpers                                                      *)
(***************************************************************************)
Abs(x) == IF x < 0 THEN -x ELSE x

\* round(n / d * units, 0) with ties to even, d > 0: Python's round() of
\* the quotient to the number of decimals that `units` stands for
Round(n, d, units) ==
  LET m == n * units
      q == m \div d
      r == m % d
  IN  IF 2 * r < d THEN q
      ELSE IF 2 * r > d THEN q + 1
      ELSE IF q % 2 = 0 THEN q ELSE q + 1

\* len(df[mask]): the number of rows at which the boolean mask is true
CountRows(rows, mask) == Cardinality({ i \in 1..Len(rows) : mask[i] })

RECURSIVE SumPct(_)
\* sum of the pct_change column
SumPct(rows) ==
  IF rows = << >> THEN 0 ELSE Head(rows).pct_change + SumPct(Tail(rows))

(***************************************************************************)
(* Input tables.  fetch_all walks the stock list in order and appends one  *)
(* row per fetched symbol, so a table is a subsequence of the stock list,  *)
(* each row carrying a quote.                                              *)
(***************************************************************************)
\* the symbols of the enumerated tables: one in no sector, two of one
\* sector, one of another
Universe == << "^INDIAVIX", "AXISBANK", "WIPRO", "INFY" >>

\* pct_change values: every threshold, both signs, and values beyond the
\* outermost thresholds
PctValues == { -600, -500, -300, -200, -100, 0, 100, 200, 300, 500, 600 }

\* pct_change values that are also taken with a volume ratio above 1.0
HighVolumePct == { -300, -200, 200, 300 }

Quotes == (PctValues \X { 100 }) \cup (HighVolumePct \X { 150 })

BaseColumns == { "symbol", "pct_change", "volume_ratio" }

Row(sym, p, v) ==
  [ symbol |-> sym, pct_change |-> p, volume_ratio |-> v, category |-> "" ]

\* the members of a set of stock-list positions in increasing order
Ascending(S) ==
  CHOOSE f \in [1..Cardinality(S) -> S] :
    \A i, j \in 1..Cardinality(S) : i < j => f[i] < f[j]

TablesOn(S) ==
  LET idx == Ascending(S)
      n == Cardinality(S)
  IN  { [ i \in 1..n |-> Row(Universe[idx[i]], q[i][1], q[i][2]) ] :
          q \in [1..n -> Quotes] }

EnumeratedTables ==
  UNION { TablesOn(S) :
            S \in { T \in SUBSET (1..Len(Universe)) : Cardinality(T) <= MaxRows } }

\* the end-to-end scenario: 10 instruments, 6 with +3 % on 1.5x volume and
\* 4 with -3 % on 0.5x volume
ScenarioTable ==
  [ i \in 1..10 |->
      IF i <= 6 THEN Row(FNO_STOCKS[i], 300, 150)
      ELSE Row(FNO_STOCKS[i], -300, 50) ]

Tables == EnumeratedTables \cup { ScenarioTable }

\* the leading entries of FNO_STOCKS, as many as a table needs for its
\* score to fall within half a thousandth of the WEAK_BULL boundary
FNO_STOCKS_HEAD ==
  << "^INDIAVIX", "PGEL", "SIEMENS", "MCX", "PNBHOUSING", "JSWSTEEL",
     "NUVAMA", "VBL", "HUDCO", "PAYTM", "LTF", "SAIL", "SAMMAANCAP", "BPCL",
     "MANAPPURAM", "KALYANKJIL", "TATAPOWER", "RBLBANK", "DIXON", "CDSL",
     "GAIL", "HDFCLIFE", "UNOMINDA", "BAJAJFINSV", "360ONE", "TVSMOTOR",
     "SUZLON", "ABB", "BAJFINANCE", "GMRAIRPORT", "HINDPETRO", "BHEL",
     "IIFL", "JIOFIN", "INDIGO", "VEDL", "ANGELONE", "AMBER", "MFSL",
     "VOLTAS", "ADANIGREEN", "IGL", "CUMMINSIND", "JSWENERGY", "SHRIRAMFIN",
     "NMDC", "COFORGE", "ASHOKLEY", "DELHIVERY", "GRASIM", "GLENMARK",
     "IREDA", "TATATECH", "OBEROIRLTY", "UNITDSPR", "ADANIENSOL",
     "APLAPOLLO", "MAZDOCK", "JUBLFOOD", "TATASTEEL", "BOSCHLTD",
     "COALINDIA", "RELIANCE", "KPITTECH", "JINDALSTEL", "KFINTECH",
     "AXISBANK", "WIPRO", "SHREECEM", "TORNTPOWER", "INFY", "NBCC", "BDL",
     "HAL", "MARUTI", "BLUESTARCO", "UNIONBANK", "NATIONALUM", "HINDZINC",
     "KOTAKBANK", "LT", "CHOLAFIN", "IRCTC", "BSE", "AUROPHARMA",
     "SUNPHARMA", "PNB", "ICICIPRULI", "INDIANB", "TECHM", "ULTRACEMCO",
     "BHARATFORG", "DIVISLAB", "INOXWIND", "KEI", "ETERNAL", "ADANIPORTS",
     "SOLARINDS", "NCC", "UPL", "MOTHERSON", "HINDALCO", "HAVELLS", "LUPIN",
     "HFCL", "HDFCBANK", "LICHSGFIN" >>

\* a table over FNO_STOCKS_HEAD whose first k rows rose 3.00 % on half the
\* average volume and whose other rows did not move
WideTable(k) ==
  [ i \in 1..Len(FNO_STOCKS_HEAD) |->
      Row(FNO_STOCKS_HEAD[i], IF i <= k THEN 300 ELSE 0, 50) ]

\* the wide tables whose scores lie around the WEAK_BULL boundary
WideTables == { WideTable(k) : k \in 12..20 }

(***************************************************************************)
(* BreadthAnalyzer.classify_stocks                                         *)
(***************************************************************************)
Categories == { "Strong Bull", "Weak Bull", "Neutral", "Weak Bear", "Strong Bear" }

\* Category with the strong-move comparisons made inclusive
Category_Inclusive(pct_change, volume_ratio) ==
  IF pct_change >= STRONG_MOVE
  THEN (IF volume_ratio > VOLUME_MULTIPLIER THEN "Strong Bull" ELSE "Weak Bull")
  ELSE IF pct_change <= -STRONG_MOVE
  THEN (IF volume_ratio > VOLUME_MULTIPLIER THEN "Strong Bear" ELSE "Weak Bear")
  ELSE "Neutral"

\* the category column of one row: 'Neutral' first, then the four masked
\* assignments in the order of the code, a later assignment overwriting
Category(pct_change, volume_ratio) ==
  LET c0 == "Neutral"
      c1 == IF pct_change > STRONG_MOVE /\ volume_ratio > VOLUME_MULTIPLIER
            THEN "Strong Bull" ELSE c0
      c2 == IF pct_change > STRONG_MOVE /\ volume_ratio <= VOLUME_MULTIPLIER
            THEN "Weak Bull" ELSE c1
      c3 == IF pct_change < -STRONG_MOVE /\ volume_ratio > VOLUME_MULTIPLIER
            THEN "Strong Bear" ELSE c2
      c4 == IF pct_change < -STRONG_MOVE /\ volume_ratio <= VOLUME_MULTIPLIER
            THEN "Weak Bear" ELSE c3
  IN  c4

\* ClassifiedRows over the equities only, the index rows dropped
ClassifiedRows_EquitiesOnly(rows) ==
  LET equities == SelectSeq(rows, LAMBDA r : r.symbol # "^INDIAVIX")
  IN  [ i \in 1..Len(equities) |->
          [ equities[i] EXCEPT !.category = Category(equities[i].pct_change, equities[i].volume_ratio) ] ]

ClassifiedRows(rows) ==
  [ i \in 1..Len(rows) |->
      [ rows[i] EXCEPT !.category = Category(rows[i].pct_change, rows[i].volume_ratio) ] ]

(***************************************************************************)
(* BreadthAnalyzer.calculate_breadth_score                                 *)
(***************************************************************************)
\* CategoryCount looking the neutral rows up under a key that is never present
CategoryCount_WrongKey(rows, cat) ==
  IF cat = "Neutral" THEN 0
  ELSE Cardinality({ i \in 1..Len(rows) : rows[i].category = cat })

\* int(counts.get(cat, 0))
CategoryCount(rows, cat) ==
  CountRows(rows, [ i \in 1..Len(rows) |-> rows[i].category = cat ])

\* BreadthScore with every category weighted 1
BreadthScore_UnitWeights(strong_bulls, weak_bulls, strong_bears, weak_bears, denominator) ==
  LET numerator == strong_bulls + weak_bulls - strong_bears - weak_bears
  IN  IF denominator > 0 THEN Round(numerator, denominator, SCORE_UNITS) ELSE 0

\* BreadthScore with the strong bears added instead of subtracted
BreadthScore_SignSlip(strong_bulls, weak_bulls, strong_bears, weak_bears, denominator) ==
  LET numerator == (strong_bulls * 2) + (weak_bulls * 1)
                     + (strong_bears * 2) - (weak_bears * 1)
  IN  IF denominator > 0 THEN Round(numerator, denominator, SCORE_UNITS) ELSE 0

\* numerator / denominator if denominator > 0 else 0, then round(score, 3)
BreadthScore(strong_bulls, weak_bulls, strong_bears, weak_bears, denominator) ==
  LET numerator == (strong_bulls * 2) + (weak_bulls * 1)
                     - (strong_bears * 2) - (weak_bears * 1)
  IN  IF denominator > 0 THEN Round(numerator, denominator, SCORE_UNITS) ELSE 0

\* total_bulls / total_bears if total_bears > 0 else float('inf'), rounded
BullBearRatio(total_bulls, total_bears) ==
  IF total_bears > 0 THEN Round(total_bulls, total_bears, PERCENT_UNITS) ELSE "inf"

BreadthData(rows) ==
  LET strong_bulls == CategoryCount(rows, "Strong Bull")
      weak_bulls == CategoryCount(rows, "Weak Bull")
      strong_bears == CategoryCount(rows, "Strong Bear")
      weak_bears == CategoryCount(rows, "Weak Bear")
      neutral == CategoryCount(rows, "Neutral")
      denominator == Len(rows)
  IN  [ score |-> BreadthScore(strong_bulls, weak_bulls, strong_bears,
                               weak_bears, denominator),
        strong_bulls |-> strong_bulls,
        weak_bulls |-> weak_bulls,
        strong_bears |-> strong_bears,
        weak_bears |-> weak_bears,
        neutral |-> neutral,
        total |-> denominator,
        total_bulls |-> strong_bulls + weak_bulls,
        total_bears |-> strong_bears + weak_bears,
        bull_bear_ratio |-> BullBearRatio(strong_bulls + weak_bulls,
                                          strong_bears + weak_bears) ]

(***************************************************************************)
(* BreadthAnalyzer.calculate_sector_breadth                                *)
(***************************************************************************)
\* self.df[self.df['symbol'].isin(stocks)]
SectorRows(rows, stocks) == SelectSeq(rows, LAMBDA r : r.symbol \in stocks)

\* UpStrong with the boundary included
UpStrong_Inclusive(pct_change) == pct_change >= STRONG_MOVE

UpStrong(pct_change) == pct_change > STRONG_MOVE
UpModerate(pct_change) == pct_change > MODERATE_MOVE /\ pct_change <= STRONG_MOVE
DownModerate(pct_change) == pct_change < -MODERATE_MOVE /\ pct_change >= -STRONG_MOVE
DownStrong(pct_change) == pct_change < -STRONG_MOVE

SectorStatus(net_breadth) ==
  IF net_breadth > 0 THEN "Bullish"
  ELSE IF net_breadth < 0 THEN "Bearish" ELSE "Neutral"

SectorScore(up_strong, up_moderate, down_strong, down_moderate, total) ==
  Round(up_strong * 2 + up_moderate * 1 - down_strong * 2 - down_moderate * 1,
        total, SCORE_UNITS)

\* the entry of one sector with at least one row
SectorEntry(sector_df) ==
  LET up_strong ==
          CountRows(sector_df, [ i \in 1..Len(sector_df) |->
                      UpStrong(sector_df[i].pct_change) ])
      up_moderate ==
          CountRows(sector_df, [ i \in 1..Len(sector_df) |->
                      UpModerate(sector_df[i].pct_change) ])
      down_moderate ==
          CountRows(sector_df, [ i \in 1..Len(sector_df) |->
                      DownModerate(sector_df[i].pct_change) ])
      down_strong ==
          CountRows(sector_df, [ i \in 1..Len(sector_df) |->
                      DownStrong(sector_df[i].pct_change) ])
      net_breadth == up_strong - down_strong
  IN  [ up_strong |-> up_strong,
        up_moderate |-> up_moderate,
        down_moderate |-> down_moderate,
        down_strong |-> down_strong,
        total |-> Len(sector_df),
        net |-> net_breadth,
        score |-> SectorScore(up_strong, up_moderate, down_strong,
                              down_moderate, Len(sector_df)),
        avg_change |-> Round(SumPct(sector_df), Len(sector_df), 1),
        status |-> SectorStatus(net_breadth) ]

\* the sectors that get an entry: `if len(sector_df) == 0: continue`
IncludedSectors(rows) ==
  { sector \in SectorNames : Len(SectorRows(rows, SECTORS[sector])) # 0 }

\* ParticipationPct over all configured sectors instead of the included ones
ParticipationPct_AllSectors(bullish_sectors, total_sectors) ==
  IF total_sectors > 0
  THEN Round(bullish_sectors * 100, Cardinality(SectorNames), PERCENT_UNITS)
  ELSE 0

\* (bullish_sectors / total_sectors * 100) if total_sectors > 0 else 0,
\* rounded to 2 decimals
ParticipationPct(bullish_sectors, total_sectors) ==
  IF total_sectors > 0
  THEN Round(bullish_sectors * 100, total_sectors, PERCENT_UNITS)
  ELSE 0

SectorData(rows) ==
  LET sector_breadth ==
        [ sector \in IncludedSectors(rows) |->
            SectorEntry(SectorRows(rows, SECTORS[sector])) ]
      bullish_sectors ==
        Cardinality({ s \in DOMAIN sector_breadth :
                        sector_breadth[s].status = "Bullish" })
      total_sectors == Cardinality(DOMAIN sector_breadth)
  IN  [ sectors |-> sector_breadth,
        bullish_count |-> bullish_sectors,
        total_count |-> total_sectors,
        participation_pct |-> ParticipationPct(bullish_sectors, total_sectors) ]

(***************************************************************************)
(* BreadthAnalyzer.calculate_magnitude_analysis                            *)
(***************************************************************************)
ExplosiveUp(pct_change) == pct_change > EXPLOSIVE_MOVE
StrongUp(pct_change) ==
  pct_change >= STRONG_EXPLOSIVE /\ pct_change <= EXPLOSIVE_MOVE
ModerateUp(pct_change) ==
  pct_change >= STRONG_MOVE /\ pct_change < STRONG_EXPLOSIVE
ExplosiveDown(pct_change) == pct_change < -EXPLOSIVE_MOVE
StrongDown(pct_change) ==
  pct_change <= -STRONG_EXPLOSIVE /\ pct_change > -EXPLOSIVE_MOVE
ModerateDown(pct_change) ==
  pct_change <= -STRONG_MOVE /\ pct_change > -STRONG_EXPLOSIVE

UltraScore(explosive_up, strong_up, moderate_up, explosive_down, strong_down, moderate_down, total) ==
  LET numerator == (explosive_up * 3) + (strong_up * 2) + (moderate_up * 1)
                     - (explosive_down * 3) - (strong_down * 2)
                     - (moderate_down * 1)
  IN  IF total > 0 THEN Round(numerator, total, SCORE_UNITS) ELSE 0

MagnitudeData(rows) ==
  LET explosive_up ==
          CountRows(rows, [ i \in 1..Len(rows) |->
                      ExplosiveUp(rows[i].pct_change) ])
      strong_up ==
          CountRows(rows, [ i \in 1..Len(rows) |->
                      StrongUp(rows[i].pct_change) ])
      moderate_up ==
          CountRows(rows, [ i \in 1..Len(rows) |->
                      ModerateUp(rows[i].pct_change) ])
      explosive_down ==
          CountRows(rows, [ i \in 1..Len(rows) |->
                      ExplosiveDown(rows[i].pct_change) ])
      strong_down ==
          CountRows(rows, [ i \in 1..Len(rows) |->
                      StrongDown(rows[i].pct_change) ])
      moderate_down ==
          CountRows(rows, [ i \in 1..Len(rows) |->
                      ModerateDown(rows[i].pct_change) ])
  IN  [ ultra_score |-> UltraScore(explosive_up, strong_up, moderate_up,
                                   explosive_down, strong_down, moderate_down,
                                   Len(rows)),
        explosive_up |-> explosive_up,
        strong_up |-> strong_up,
        moderate_up |-> moderate_up,
        explosive_down |-> explosive_down,
        strong_down |-> strong_down,
        moderate_down |-> moderate_down ]

(***************************************************************************)
(* BreadthAnalyzer.classify_regime                                         *)
(***************************************************************************)
\* RegimeKey with the top band made inclusive
RegimeKey_Inclusive(score) ==
  IF score >= EXTREME_BULL THEN "EXTREME_BULL"
  ELSE IF score >= STRONG_BULL THEN "STRONG_BULL"
  ELSE IF score >= WEAK_BULL THEN "WEAK_BULL"
  ELSE IF score >= NO_TRADE_LOW THEN "NO_TRADE"
  ELSE IF score >= WEAK_BEAR THEN "WEAK_BEAR"
  ELSE IF score >= STRONG_BEAR THEN "STRONG_BEAR"
  ELSE "EXTREME_BEAR"

RegimeKey(score) ==
  IF score > EXTREME_BULL THEN "EXTREME_BULL"
  ELSE IF score >= STRONG_BULL THEN "STRONG_BULL"
  ELSE IF score >= WEAK_BULL THEN "WEAK_BULL"
  ELSE IF score >= NO_TRADE_LOW THEN "NO_TRADE"
  ELSE IF score >= WEAK_BEAR THEN "WEAK_BEAR"
  ELSE IF score >= STRONG_BEAR THEN "STRONG_BEAR"
  ELSE "EXTREME_BEAR"

\* participation < Thresholds.WEAK_PARTICIPATION and score > 0
NarrowLeadership(participation, score) ==
  participation < WEAK_PARTICIPATION /\ score > 0

\* AdjustedAction appending the warning to the table entry itself
AdjustedAction_InPlace(regimes, regime_key, narrow) ==
  LET text == IF narrow
              THEN Append(regimes[regime_key].action, NARROW_WARNING)
              ELSE regimes[regime_key].action
  IN  [ regimes |-> [ regimes EXCEPT ![regime_key].action = text ],
        action |-> text ]

\* the (REGIMES table, self.action) pair after the adjustment: the action
\* string is rebound on the analyzer, the table entry is left as it is
AdjustedAction(regimes, regime_key, narrow) ==
  [ regimes |-> regimes,
    action |-> IF narrow
               THEN Append(regimes[regime_key].action, NARROW_WARNING)
               ELSE regimes[regime_key].action ]

(***************************************************************************)
(* AdvancedAnalysis (advanced_analysis.py).  Its table is the fetched one:  *)
(* rows carry the day's volume next to pct_change and volume_ratio.  A      *)
(* float result is a number in fixed point, inf or nan; a method either     *)
(* returns a dictionary or raises.                                          *)
(***************************************************************************)
AdvColumns == { "symbol", "pct_change", "volume", "volume_ratio" }

AdvRow(sym, p, vol, v) ==
  [ symbol |-> sym, pct_change |-> p, volume |-> vol, volume_ratio |-> v ]

Num(x) == [ kind |-> "number", num |-> x ]
Inf == [ kind |-> "inf", num |-> 0 ]
NaN == [ kind |-> "nan", num |-> 0 ]
Raise(exception) == [ kind |-> "raise", text |-> exception ]

\* sum of a sequence of numbers
SumSeq(nums) ==
  LET Partial[i \in 0..Len(nums)] ==
        IF i = 0 THEN 0 ELSE Partial[i - 1] + nums[i]
  IN  Partial[Len(nums)]

\* min(max(x, 0), top) on numerators over one denominator
Clamp(x, top) == IF x < 0 THEN 0 ELSE IF x > top THEN top ELSE x

\* calculate_market_temperature.  Over the denominator 200 * len(df):
\* up_pct = 40 * ups / n, momentum = (avg_change + 2) / 4 * 30 and
\* volume = (avg_vol_ratio - 0.5) / 1.5 * 30, the two clamped to [0, 30].
\* len(...) / len(df) divides two ints: ZeroDivisionError on no rows.
MarketTemperature(rows) ==
  LET n == Len(rows)
      d == 200 * n
      ups == Cardinality({ i \in 1..n : rows[i].pct_change > 0 })
      up_pct == 8000 * ups
      sum_change == SumSeq([ i \in 1..n |-> rows[i].pct_change ])
      sum_ratio == SumSeq([ i \in 1..n |-> rows[i].volume_ratio ])
      momentum_score == Clamp(15 * sum_change + 3000 * n, 6000 * n)
      volume_score == Clamp(40 * sum_ratio - 2000 * n, 6000 * n)
      temperature == up_pct + momentum_score + volume_score
      status == IF temperature > 80 * d THEN "OVERHEATED (Potential reversal)"
                ELSE IF temperature > 60 * d THEN "HOT (Strong bullish)"
                ELSE IF temperature > 40 * d THEN "WARM (Moderate bullish)"
                ELSE IF temperature > 30 * d THEN "NEUTRAL"
                ELSE IF temperature > 20 * d THEN "COOL (Moderate bearish)"
                ELSE "COLD (Strong bearish)"
  IN  IF n = 0 THEN Raise("ZeroDivisionError")
      ELSE [ kind |-> "dict",
             temperature |-> Round(temperature, d, 10),
             status |-> status,
             components |-> [ breadth |-> Round(up_pct, d, 10),
                              momentum |-> Round(momentum_score, d, 10),
                              volume |-> Round(volume_score, d, 10) ] ]

\* the TRIN bands tested from the highest cutoff down with '>='
TrinSignal_FromTop(trin) ==
  IF trin.kind # "number" THEN "Extremely Bearish"
  ELSE IF 100 * trin.n >= 200 * trin.d THEN "Extremely Bearish"
  ELSE IF 100 * trin.n >= 120 * trin.d THEN "Bearish"
  ELSE IF 100 * trin.n >= 80 * trin.d THEN "Neutral"
  ELSE IF 100 * trin.n > 50 * trin.d THEN "Bullish"
  ELSE "Extremely Bullish"

\* the TRIN bands: every '<' against inf or nan is False
TrinSignal(trin) ==
  IF trin.kind # "number" THEN "Extremely Bearish"
  ELSE IF 100 * trin.n < 50 * trin.d THEN "Extremely Bullish"
  ELSE IF 100 * trin.n < 80 * trin.d THEN "Bullish"
  ELSE IF 100 * trin.n < 120 * trin.d THEN "Neutral"
  ELSE IF 100 * trin.n < 200 * trin.d THEN "Bearish"
  ELSE "Extremely Bearish"

\* the unrounded trin as a fraction n / d, or what the float division by a
\* down_volume / up_volume of 0.0 leaves: nan for 0.0 / 0.0, inf otherwise
Trin(advances, declines, up_volume, down_volume) ==
  IF advances > 0 /\ up_volume > 0
  THEN IF down_volume = 0
       THEN [ kind |-> IF declines = 0 THEN "nan" ELSE "inf", n |-> 0, d |-> 1 ]
       ELSE [ kind |-> "number", n |-> declines * up_volume,
              d |-> advances * down_volume ]
  ELSE [ kind |-> "number", n |-> 0, d |-> 1 ]

\* round(x, 2) of a fraction, inf or nan
Rounded2(x) ==
  IF x.kind = "number" THEN Num(Round(x.n, x.d, 100))
  ELSE IF x.kind = "inf" THEN Inf ELSE NaN

\* calculate_market_internals
MarketInternals(rows) ==
  LET n == Len(rows)
      advances == Cardinality({ i \in 1..n : rows[i].pct_change > 0 })
      declines == Cardinality({ i \in 1..n : rows[i].pct_change < 0 })
      unchanged == Cardinality({ i \in 1..n : rows[i].pct_change = 0 })
      up_volume == SumSeq([ i \in 1..n |->
                     IF rows[i].pct_change > 0 THEN rows[i].volume ELSE 0 ])
      down_volume == SumSeq([ i \in 1..n |->
                       IF rows[i].pct_change < 0 THEN rows[i].volume ELSE 0 ])
      trin == Trin(advances, declines, up_volume, down_volume)
  IN  [ kind |-> "dict",
        advances |-> advances,
        declines |-> declines,
        unchanged |-> unchanged,
        ad_ratio |-> IF declines > 0
                     THEN Num(Round(advances, declines, 100)) ELSE Inf,
        up_volume |-> up_volume,
        down_volume |-> down_volume,
        volume_ratio |-> IF down_volume > 0
                         THEN Num(Round(up_volume, down_volume, 100)) ELSE Inf,
        trin |-> Rounded2(trin),
        trin_signal |-> TrinSignal(trin) ]

\* df.sort_values('pct_change', key=abs, ascending=False): the rows by
\* falling |pct_change|, equal ones in table order
SortedByAbs(rows) ==
  LET n == Len(rows)
      Before(j, i) ==
        \/ Abs(rows[j].pct_change) > Abs(rows[i].pct_change)
        \/ Abs(rows[j].pct_change) = Abs(rows[i].pct_change) /\ j < i
      Place(i) == 1 + Cardinality({ j \in 1..n : Before(j, i) })
  IN  [ p \in 1..n |-> rows[CHOOSE i \in 1..n : Place(i) = p] ]

\* calculate_concentration_risk.  The two sums are numpy floats when the
\* column is numeric, and 0.0 / 0.0 is then nan; on a table without rows
\* the column can be of object dtype, its sums Python ints, and 0 / 0
\* raises: both outcomes are in the set returned for such a table.
ConcentrationRisk(rows) ==
  LET n == Len(rows)
      top_10_pct == n \div 10
      top_stocks == SubSeq(SortedByAbs(rows), 1, top_10_pct)
      total_abs_change == SumSeq([ i \in 1..n |-> Abs(rows[i].pct_change) ])
      top_abs_change ==
        SumSeq([ i \in 1..top_10_pct |-> Abs(top_stocks[i].pct_change) ])
      risk_level ==
        IF total_abs_change = 0 THEN "LOW RISK - Broad participation"
        ELSE IF 100 * top_abs_change > 50 * total_abs_change
        THEN "HIGH RISK - Very narrow market"
        ELSE IF 100 * top_abs_change > 35 * total_abs_change
        THEN "MODERATE RISK - Somewhat narrow"
        ELSE "LOW RISK - Broad participation"
      result ==
        [ kind |-> "dict",
          concentration_pct |->
            IF total_abs_change = 0 THEN NaN
            ELSE Num(Round(100 * top_abs_change, total_abs_change, 10)),
          risk_level |-> risk_level,
          top_contributors |->
            [ i \in 1..(IF top_10_pct < 5 THEN top_10_pct ELSE 5) |->
                top_stocks[i].symbol ] ]
  IN  IF n = 0 THEN { result, Raise("ZeroDivisionError") } ELSE { result }

\* calculate_magnitude_stats
MagnitudeStats(rows) ==
  [ explosive_up |->
      Cardinality({ i \in 1..Len(rows) : rows[i].pct_change > 500 }),
    explosive_down |->
      Cardinality({ i \in 1..Len(rows) : rows[i].pct_change < -500 }) ]

\* detect_capitulation_or_euphoria: explosive_down / len(df) divides two
\* ints, ZeroDivisionError on no rows
CapitulationOrEuphoria(rows) ==
  LET n == Len(rows)
      stats == MagnitudeStats(rows)
  IN  IF n = 0 THEN Raise("ZeroDivisionError")
      ELSE IF 100 * stats.explosive_down > 15 * n
      THEN [ kind |-> "dict", condition |-> "CAPITULATION",
             signal |-> "CAPITULATION DETECTED - Potential bottom near",
             explosive_moves_pct |-> Round(100 * stats.explosive_down, n, 10),
             action |-> "Watch for reversal, prepare long entries" ]
      ELSE IF 100 * stats.explosive_up > 15 * n
      THEN [ kind |-> "dict", condition |-> "EUPHORIA",
             signal |-> "EUPHORIA DETECTED - Potential top near",
             explosive_moves_pct |-> Round(100 * stats.explosive_up, n, 10),
             action |-> "Book profits, tighten stops" ]
      ELSE [ kind |-> "dict", condition |-> "NORMAL",
             signal |-> "No extreme sentiment detected",
             explosive_moves_pct |-> 0,
             action |-> "Continue normal trading" ]

\* the quotes of the advanced tables, (pct_change, volume, volume_ratio):
\* advancing, declining and unchanged rows, explosive moves, no volume, and
\* volumes whose ratios meet the TRIN cutoffs 0.5, 0.8 and 2.0
AdvQuotes ==
  { << 100, 100, 100 >>, << 100, 125, 100 >>, << 100, 200, 100 >>,
    << 100, 0, 100 >>, << 600, 100, 200 >>,
    << -100, 100, 100 >>, << -100, 125, 100 >>, << -100, 200, 100 >>,
    << -100, 0, 100 >>, << -600, 200, 50 >>,
    << 0, 100, 100 >>, << 0, 0, 100 >> }

AdvTablesOn(S) ==
  LET idx == Ascending(S)
      n == Cardinality(S)
  IN  { [ i \in 1..n |-> AdvRow(Universe[idx[i]], q[i][1], q[i][2], q[i][3]) ] :
          q \in [1..n -> AdvQuotes] }

\* eleven rows: five advance 1 % on a volume of 120 each, six decline, one
\* of them by 6 %, on a volume of 100 each
AdvScenarioTable ==
  [ i \in 1..11 |->
      IF i <= 5 THEN AdvRow(FNO_STOCKS_HEAD[i], 100, 120, 100)
      ELSE IF i = 6 THEN AdvRow(FNO_STOCKS_HEAD[i], -600, 100, 100)
      ELSE AdvRow(FNO_STOCKS_HEAD[i], -100, 100, 100) ]

AdvTables ==
  UNION { AdvTablesOn(S) :
            S \in { T \in SUBSET (1..Len(Universe)) : Cardinality(T) <= MaxRows } }
    \cup { AdvScenarioTable }

(***************************************************************************)
(* HistoryManager.  The history file is absent, unreadable as JSON, or a   *)
(* JSON list of records {date, score, regime}.  A date string              *)
(* 'YYYY-MM-DD' is modelled as the number of its day, a datetime as a day  *)
(* with an hour.                                                           *)
(***************************************************************************)
HISTORY_DAYS == 30

NoFile == [ state |-> "absent", records |-> << >> ]
CorruptFile == [ state |-> "corrupt", records |-> << >> ]
JsonFile(records) == [ state |-> "json", records |-> records ]

\* date.strftime('%Y-%m-%d'): the day of the datetime, the time dropped
strftime(date) == date.day

\* HistoryManager.load_history: [] when the file is absent or json.load fails
load_history(f) == IF f.state = "json" THEN f.records ELSE << >>

\* the filter that compares the stored string with the datetime object,
\* which never match
RemoveDate_NeverEqual(history, today_str) == history

\* [h for h in history if h['date'] != today_str]
RemoveDate(history, today_str) ==
  SelectSeq(history, LAMBDA h : h.date # today_str)

\* history[:n], the slice taken from the wrong end of the list
LastN_FirstN(history, n) ==
  IF Len(history) <= n THEN history ELSE SubSeq(history, 1, n)

\* history[-n:]
LastN(history, n) ==
  IF Len(history) <= n THEN history
  ELSE SubSeq(history, Len(history) - n + 1, Len(history))

\* the new record appended before the same-date filter runs, which then
\* removes it again
SavedHistory_FilterLast(f, date, score, regime) ==
  LET today_str == strftime(date)
      appended == Append(load_history(f), [ date |-> today_str, score |-> score,
                                            regime |-> regime ])
  IN  LastN(RemoveDate(appended, today_str), HISTORY_DAYS)

\* the list that save_score writes
SavedHistory(f, date, score, regime) ==
  LET today_str == strftime(date)
      history == RemoveDate(load_history(f), today_str)
      appended == Append(history, [ date |-> today_str, score |-> score,
                                    regime |-> regime ])
  IN  LastN(appended, HISTORY_DAYS)

\* WrittenHistory with the new record put in front of the loaded ones
WrittenHistory_Prepend(history, date, score, regime) ==
  LET today_str == strftime(date)
      kept == RemoveDate(history, today_str)
      record == [ date |-> today_str, score |-> score, regime |-> regime ]
  IN  LastN(<< record >> \o kept, HISTORY_DAYS)

\* the list save_score dumps, from the list it loaded: the filter, the
\* append and the slice
WrittenHistory(history, date, score, regime) ==
  LET today_str == strftime(date)
      kept == RemoveDate(history, today_str)
      record == [ date |-> today_str, score |-> score, regime |-> regime ]
  IN  LastN(Append(kept, record), HISTORY_DAYS)

AVERAGE_PERIOD == 3

RECURSIVE SumScores(_)
\* sum(scores) of a history list
SumScores(history) ==
  IF history = << >> THEN 0 ELSE Head(history).score + SumScores(Tail(history))

\* the mean taken over `period` instead of over the scores that are there
MovingAverage_OverPeriod(f, period) ==
  LET history == load_history(f) IN
  IF Len(history) < 1 THEN [ kind |-> "None" ]
  ELSE [ kind |-> "number",
         num |-> Round(SumScores(LastN(history, period)), period, 1) ]

\* what get_moving_average returns, period >= 1: None, or the mean of the
\* scores of history[-period:] rounded to SCORE_DECIMALS
MovingAverage(f, period) ==
  LET history == load_history(f) IN
  IF Len(history) < 1 THEN [ kind |-> "None" ]
  ELSE LET recent == LastN(history, period)
       IN  [ kind |-> "number",
             num |-> Round(SumScores(recent), Len(recent), 1) ]

\* the comparison made between the two newest scores only
Trend_LastStep(f, lookback) ==
  LET history == load_history(f) IN
  IF Len(history) < lookback THEN "Insufficient data"
  ELSE LET scores == LastN(history, 2)
       IN  IF scores[Len(scores)].score > scores[1].score THEN "Improving"
           ELSE IF scores[Len(scores)].score < scores[1].score
                THEN "Deteriorating"
                ELSE "Stable"

\* what get_trend returns, lookback >= 1
Trend(f, lookback) ==
  LET history == load_history(f) IN
  IF Len(history) < lookback THEN "Insufficient data"
  ELSE LET scores == LastN(history, lookback)
       IN  IF scores[Len(scores)].score > scores[1].score THEN "Improving"
           ELSE IF scores[Len(scores)].score < scores[1].score
                THEN "Deteriorating"
                ELSE "Stable"

\* the monotonicity tests made with >= and <=
Divergence_NonStrict(f, current_score) ==
  LET history == load_history(f) IN
  IF Len(history) < 3
  THEN [ kind |-> "None", text |-> "Insufficient data" ]
  ELSE LET scores == LastN(history, 3)
           steps == 1..(Len(scores) - 1)
       IN  IF /\ current_score > 0
              /\ \A i \in steps : scores[i].score >= scores[i + 1].score
           THEN [ kind |-> "bearish",
                  text |-> "Breadth deteriorating - Distribution warning" ]
           ELSE IF /\ current_score < 0
                   /\ \A i \in steps : scores[i].score <= scores[i + 1].score
           THEN [ kind |-> "bullish",
                  text |-> "Breadth improving - Accumulation signal" ]
           ELSE [ kind |-> "None", text |-> "No divergence" ]

\* the (type, message) pair detect_divergence returns
Divergence(f, current_score) ==
  LET history == load_history(f) IN
  IF Len(history) < 3
  THEN [ kind |-> "None", text |-> "Insufficient data" ]
  ELSE LET scores == LastN(history, 3)
           steps == 1..(Len(scores) - 1)
       IN  IF /\ current_score > 0
              /\ \A i \in steps : scores[i].score > scores[i + 1].score
           THEN [ kind |-> "bearish",
                  text |-> "Breadth deteriorating - Distribution warning" ]
           ELSE IF /\ current_score < 0
                   /\ \A i \in steps : scores[i].score < scores[i + 1].score
           THEN [ kind |-> "bullish",
                  text |-> "Breadth improving - Accumulation signal" ]
           ELSE [ kind |-> "None", text |-> "No divergence" ]

\* no entry point is running, no save_score call is in progress
NoRun == [ entry |-> "none", at |-> 0, saved |-> << >> ]
NoWriters == << >>

\* no method has returned yet
NoCall == [ op |-> "none", args |-> << >>, value |-> [ kind |-> "None" ] ]

VARIABLES
  df,              \* BreadthAnalyzer.df: [columns, rows]
  breadth_data,    \* BreadthAnalyzer.breadth_data ({} is << >>)
  sector_data,     \* BreadthAnalyzer.sector_data ({} is << >>)
  magnitude_data,  \* BreadthAnalyzer.magnitude_data ({} is << >>)
  regime,          \* BreadthAnalyzer.regime (None is "None")
  action,          \* BreadthAnalyzer.action (None is << >>)
  REGIMES,         \* the module-level REGIMES table of config.py
  regime_calls,    \* number of completed classify_regime calls (capped)
  file,            \* the history file of HistoryManager.filepath
  call,            \* the method call that returned last: [op, args, value]
  run,             \* the entry point in progress: [entry, at, saved]
  writers,         \* the save_score calls in progress, by process
  failed_stocks    \* DataFetcher.failed_stocks

analyzerVars == << df, breadth_data, sector_data, magnitude_data, regime,
                   action, REGIMES, regime_calls >>

\* the variables of the entry points, the concurrent writers and the fetcher
processVars == << run, writers, failed_stocks >>

vars == << df, breadth_data, sector_data, magnitude_data, regime, action,
           REGIMES, regime_calls, file, call, run, writers, failed_stocks >>

(***************************************************************************)
(* The analyzer: state after BreadthAnalyzer(df), one action per method    *)
(***************************************************************************)
Init ==
  /\ df \in { [ columns |-> BaseColumns, rows |-> t ] : t \in Tables }
  /\ breadth_data = << >>
  /\ sector_data = << >>
  /\ magnitude_data = << >>
  /\ regime = "None"
  /\ action = << >>
  /\ REGIMES = REGIMES_TABLE
  /\ regime_calls = 0
  /\ file = NoFile
  /\ call = NoCall
  /\ run = NoRun
  /\ writers = NoWriters
  /\ failed_stocks = << >>

classify_stocks ==
  /\ df' = [ columns |-> df.columns \cup { "category" },
             rows |-> ClassifiedRows(df.rows) ]
  /\ UNCHANGED << breadth_data, sector_data, magnitude_data, regime, action,
                  REGIMES, regime_calls, file, call, processVars >>

\* self.df['category'] raises KeyError on a table that was not classified
calculate_breadth_score ==
  /\ "category" \in df.columns
  /\ breadth_data' = BreadthData(df.rows)
  /\ UNCHANGED << df, sector_data, magnitude_data, regime, action,
                  REGIMES, regime_calls, file, call, processVars >>

calculate_sector_breadth ==
  /\ sector_data' = SectorData(df.rows)
  /\ UNCHANGED << df, breadth_data, magnitude_data, regime, action,
                  REGIMES, regime_calls, file, call, processVars >>

calculate_magnitude_analysis ==
  /\ magnitude_data' = MagnitudeData(df.rows)
  /\ UNCHANGED << df, breadth_data, sector_data, regime, action,
                  REGIMES, regime_calls, file, call, processVars >>

\* self.breadth_data['score'] and self.sector_data['participation_pct']
\* raise KeyError while the dictionaries are still empty
classify_regime ==
  /\ breadth_data # << >>
  /\ sector_data # << >>
  /\ LET score == breadth_data.score
         participation == sector_data.participation_pct
         regime_key == RegimeKey(score)
         adjusted == AdjustedAction(REGIMES, regime_key,
                                    NarrowLeadership(participation, score))
     IN  /\ regime' = REGIMES[regime_key].name
         /\ action' = adjusted.action
         /\ REGIMES' = adjusted.regimes
  /\ regime_calls' = IF regime_calls < MaxRegimeCalls
                     THEN regime_calls + 1 ELSE regime_calls
  /\ UNCHANGED << df, breadth_data, sector_data, magnitude_data, file, call,
                  processVars >>

Next ==
  \/ classify_stocks
  \/ calculate_breadth_score
  \/ calculate_sector_breadth
  \/ calculate_magnitude_analysis
  \/ classify_regime

Spec == Init /\ [][Next]_vars

\* the analyzer constructed on a wide table
InitWide ==
  /\ df \in { [ columns |-> BaseColumns, rows |-> t ] : t \in WideTables }
  /\ breadth_data = << >>
  /\ sector_data = << >>
  /\ magnitude_data = << >>
  /\ regime = "None"
  /\ action = << >>
  /\ REGIMES = REGIMES_TABLE
  /\ regime_calls = 0
  /\ file = NoFile
  /\ call = NoCall
  /\ run = NoRun
  /\ writers = NoWriters
  /\ failed_stocks = << >>

SpecWide == InitWide /\ [][Next]_vars

(***************************************************************************)
(* The history store with one writer: save_score called with any date and  *)
(* score, starting from no file, an unreadable file (empty, or holding the  *)
(* text of earlier records), an empty list or a list that is HISTORY_DAYS  *)
(* long.                                                                   *)
(***************************************************************************)
\* a store of HISTORY_DAYS records, days 1..HISTORY_DAYS
FullStore ==
  [ d \in 1..HISTORY_DAYS |-> [ date |-> d, score |-> 0, regime |-> "NO_TRADE" ] ]

\* a file whose text holds the records of FullStore but is not valid JSON
\* any more (a json.dump that was cut short, an edit by hand)
DamagedStore == [ state |-> "corrupt", records |-> FullStore ]

\* the days of the saves: the oldest and the newest day of FullStore and
\* the two days after it
SaveDays == { 1, HISTORY_DAYS, HISTORY_DAYS + 1, HISTORY_DAYS + 2 }
SaveHours == { 9, 16 }
SaveScores == { -500, 0, 500 }
\* the callers save the regime name classify_regime gave for the score
SaveRegime(score) == REGIMES_TABLE[RegimeKey(score)].name

DateTimes == [ day : SaveDays, hour : SaveHours ]

InitHistory ==
  /\ df = [ columns |-> BaseColumns, rows |-> << >> ]
  /\ breadth_data = << >>
  /\ sector_data = << >>
  /\ magnitude_data = << >>
  /\ regime = "None"
  /\ action = << >>
  /\ REGIMES = REGIMES_TABLE
  /\ regime_calls = 0
  /\ file \in { NoFile, CorruptFile, DamagedStore, JsonFile(<< >>),
                JsonFile(FullStore) }
  /\ call = NoCall
  /\ run = NoRun
  /\ writers = NoWriters
  /\ failed_stocks = << >>

save_score(date, score, regime_label) ==
  /\ file' = JsonFile(SavedHistory(file, date, score, regime_label))
  /\ call' = [ op |-> "save_score",
               args |-> [ date |-> date, score |-> score,
                          regime |-> regime_label ],
               value |-> [ kind |-> "None" ] ]
  /\ UNCHANGED << analyzerVars, processVars >>

\* the readers load the file and return; they write nothing
get_moving_average(period) ==
  /\ call' = [ op |-> "get_moving_average", args |-> [ period |-> period ],
               value |-> MovingAverage(file, period) ]
  /\ UNCHANGED << analyzerVars, file, processVars >>

get_trend(lookback) ==
  /\ call' = [ op |-> "get_trend", args |-> [ lookback |-> lookback ],
               value |-> [ kind |-> "text", text |-> Trend(file, lookback) ] ]
  /\ UNCHANGED << analyzerVars, file, processVars >>

detect_divergence(current_score) ==
  /\ call' = [ op |-> "detect_divergence",
               args |-> [ current_score |-> current_score ],
               value |-> Divergence(file, current_score) ]
  /\ UNCHANGED << analyzerVars, file, processVars >>

\* the default period and a period of one record
Periods == { 1, AVERAGE_PERIOD }
\* the default lookback and the shortest window with two ends
Lookbacks == { 2, 5 }

NextHistory ==
  \/ \E date \in DateTimes, score \in SaveScores :
       save_score(date, score, SaveRegime(score))
  \/ \E period \in Periods : get_moving_average(period)
  \/ \E lookback \in Lookbacks : get_trend(lookback)
  \/ \E current_score \in SaveScores : detect_divergence(current_score)

SpecHistory == InitHistory /\ [][NextHistory]_vars

(***************************************************************************)
(* AdvancedAnalysis(df) on a fetched table, one action per method           *)
(***************************************************************************)
InitAdvanced ==
  /\ df \in { [ columns |-> AdvColumns, rows |-> t ] : t \in AdvTables }
  /\ breadth_data = << >>
  /\ sector_data = << >>
  /\ magnitude_data = << >>
  /\ regime = "None"
  /\ action = << >>
  /\ REGIMES = REGIMES_TABLE
  /\ regime_calls = 0
  /\ file = NoFile
  /\ call = NoCall
  /\ run = NoRun
  /\ writers = NoWriters
  /\ failed_stocks = << >>

calculate_market_temperature ==
  /\ call' = [ op |-> "calculate_market_temperature", args |-> << >>,
               value |-> MarketTemperature(df.rows) ]
  /\ UNCHANGED << analyzerVars, file, processVars >>

calculate_market_internals ==
  /\ call' = [ op |-> "calculate_market_internals", args |-> << >>,
               value |-> MarketInternals(df.rows) ]
  /\ UNCHANGED << analyzerVars, file, processVars >>

calculate_concentration_risk ==
  /\ \E value \in ConcentrationRisk(df.rows) :
       call' = [ op |-> "calculate_concentration_risk", args |-> << >>,
                 value |-> value ]
  /\ UNCHANGED << analyzerVars, file, processVars >>

detect_capitulation_or_euphoria ==
  /\ call' = [ op |-> "detect_capitulation_or_euphoria", args |-> << >>,
               value |-> CapitulationOrEuphoria(df.rows) ]
  /\ UNCHANGED << analyzerVars, file, processVars >>

NextAdvanced ==
  \/ calculate_market_temperature
  \/ calculate_market_internals
  \/ calculate_concentration_risk
  \/ detect_capitulation_or_euphoria

SpecAdvanced == InitAdvanced /\ [][NextAdvanced]_vars

(***************************************************************************)
(* calculate_fear_greed_index (app.py).  Breadth scores are in thousandths, *)
(* VIX levels and participation in hundredths, the raw component scores in  *)
(* tenths of a point, the weighted scores and the total in thousandths of   *)
(* a point.                                                                 *)
(***************************************************************************)
\* Component 1 with the top step tested with '>=' like the steps below it
BreadthRaw_Inclusive(breadth_3day) ==
  IF breadth_3day >= 800 THEN 975
  ELSE IF breadth_3day >= 600 THEN 870
  ELSE IF breadth_3day >= 400 THEN 720
  ELSE IF breadth_3day >= 200 THEN 595
  ELSE IF breadth_3day >= 0 THEN 495
  ELSE IF breadth_3day >= -200 THEN 395
  ELSE IF breadth_3day >= -400 THEN 295
  ELSE IF breadth_3day >= -600 THEN 170
  ELSE 45

\* Component 1: c1_raw from the 3-day breadth average
BreadthRaw(breadth_3day) ==
  IF breadth_3day > 800 THEN 975
  ELSE IF breadth_3day >= 600 THEN 870
  ELSE IF breadth_3day >= 400 THEN 720
  ELSE IF breadth_3day >= 200 THEN 595
  ELSE IF breadth_3day >= 0 THEN 495
  ELSE IF breadth_3day >= -200 THEN 395
  ELSE IF breadth_3day >= -400 THEN 295
  ELSE IF breadth_3day >= -600 THEN 170
  ELSE 45

\* Component 2: c2_raw from breadth_today - breadth_3day
MomentumRaw(breadth_momentum) ==
  IF breadth_momentum >= 150 THEN 1000
  ELSE IF breadth_momentum >= 100 THEN 920
  ELSE IF breadth_momentum >= 50 THEN 770
  ELSE IF breadth_momentum >= 0 THEN 620
  ELSE IF breadth_momentum >= -50 THEN 495
  ELSE IF breadth_momentum >= -100 THEN 370
  ELSE IF breadth_momentum >= -150 THEN 220
  ELSE 70

\* Component 3: c3_raw from the 3-day VIX average
VixLevelRaw(vix_3day) ==
  IF vix_3day < 1200 THEN 950
  ELSE IF vix_3day < 1400 THEN 820
  ELSE IF vix_3day < 1600 THEN 670
  ELSE IF vix_3day < 1800 THEN 545
  ELSE IF vix_3day < 2000 THEN 445
  ELSE IF vix_3day < 2300 THEN 320
  ELSE IF vix_3day < 2700 THEN 170
  ELSE 45

\* Component 4: c4_raw from vix_day3 - vix_day1
VixChangeRaw(vix_change) ==
  IF vix_change <= -300 THEN 1000
  ELSE IF vix_change <= -200 THEN 850
  ELSE IF vix_change <= -100 THEN 700
  ELSE IF vix_change <= 0 THEN 550
  ELSE IF vix_change <= 100 THEN 450
  ELSE IF vix_change <= 200 THEN 300
  ELSE IF vix_change <= 300 THEN 150
  ELSE 0

\* Component 5: c5_raw from the 3-day participation average
ParticipationRaw(participation_3day) ==
  IF participation_3day > 8000 THEN 1000
  ELSE IF participation_3day >= 7000 THEN 920
  ELSE IF participation_3day >= 6000 THEN 770
  ELSE IF participation_3day >= 5000 THEN 620
  ELSE IF participation_3day >= 4000 THEN 470
  ELSE IF participation_3day >= 3000 THEN 320
  ELSE 170

\* the weights of components 2 and 3 taken from each other's line
WeightedScores_SwappedWeights(c1_raw, c2_raw, c3_raw, c4_raw, c5_raw) ==
  << c1_raw * 40, c2_raw * 25, c3_raw * 15, c4_raw * 10, c5_raw * 10 >>

\* c1_score .. c5_score: raw * 0.40, 0.15, 0.25, 0.10, 0.10
WeightedScores(c1_raw, c2_raw, c3_raw, c4_raw, c5_raw) ==
  << c1_raw * 40, c2_raw * 15, c3_raw * 25, c4_raw * 10, c5_raw * 10 >>

\* the regime of a total index
FearGreedRegime(total_index) ==
  IF total_index >= 90000 THEN "EXTREME GREED"
  ELSE IF total_index >= 75000 THEN "GREED"
  ELSE IF total_index >= 60000 THEN "MODERATE GREED"
  ELSE IF total_index >= 50000 THEN "NEUTRAL"
  ELSE IF total_index >= 40000 THEN "MILD FEAR"
  ELSE IF total_index >= 25000 THEN "FEAR"
  ELSE IF total_index >= 10000 THEN "EXTREME FEAR"
  ELSE "PANIC"

\* the dictionary calculate_fear_greed_index returns
FearGreedIndex(breadth_3day, breadth_today, vix_3day, vix_day1, vix_day3, participation_3day) ==
  LET c1_raw == BreadthRaw(breadth_3day)
      c2_raw == MomentumRaw(breadth_today - breadth_3day)
      c3_raw == VixLevelRaw(vix_3day)
      c4_raw == VixChangeRaw(vix_day3 - vix_day1)
      c5_raw == ParticipationRaw(participation_3day)
      scores == WeightedScores(c1_raw, c2_raw, c3_raw, c4_raw, c5_raw)
      total_index == scores[1] + scores[2] + scores[3] + scores[4] + scores[5]
  IN  [ kind |-> "dict",
        total_index |-> total_index,
        regime |-> FearGreedRegime(total_index),
        components |-> [ c1_raw |-> c1_raw, c1_score |-> scores[1],
                         c2_raw |-> c2_raw, c2_score |-> scores[2],
                         c3_raw |-> c3_raw, c3_score |-> scores[3],
                         c4_raw |-> c4_raw, c4_score |-> scores[4],
                         c5_raw |-> c5_raw, c5_score |-> scores[5] ] ]

\* the arguments: every step of every component table, the step boundaries
\* of the breadth, VIX and participation averages and of the VIX change,
\* and breadth momenta inside each step and at 0
Breadth3Day == { -700, -600, -500, -400, -200, 0, 200, 400, 600, 800, 900 }
Momenta == { -200, -120, -70, -20, 0, 20, 70, 120, 200 }
Vix3Day == { 1100, 1200, 1400, 1600, 1800, 2000, 2300, 2700 }
VixDay1 == { 1500 }
VixChanges == { -400, -300, -200, -100, 0, 100, 200, 300, 400 }
Participation3Day == { 2000, 3000, 4000, 5000, 6000, 7000, 8000, 9000 }

InitFearGreed ==
  /\ df = [ columns |-> BaseColumns, rows |-> << >> ]
  /\ breadth_data = << >>
  /\ sector_data = << >>
  /\ magnitude_data = << >>
  /\ regime = "None"
  /\ action = << >>
  /\ REGIMES = REGIMES_TABLE
  /\ regime_calls = 0
  /\ file = NoFile
  /\ call = NoCall
  /\ run = NoRun
  /\ writers = NoWriters
  /\ failed_stocks = << >>

calculate_fear_greed_index(breadth_3day, breadth_today, vix_3day, vix_day1, vix_day3, participation_3day) ==
  /\ call' = [ op |-> "calculate_fear_greed_index",
               args |-> [ breadth_3day |-> breadth_3day,
                          breadth_today |-> breadth_today,
                          vix_3day |-> vix_3day,
                          vix_day1 |-> vix_day1,
                          vix_day3 |-> vix_day3,
                          participation_3day |-> participation_3day ],
               value |-> FearGreedIndex(breadth_3day, breadth_today, vix_3day,
                                        vix_day1, vix_day3, participation_3day) ]
  /\ UNCHANGED << analyzerVars, file, processVars >>

\* display_fear_greed_index calls it once in a rendering of the page
NextFearGreed ==
  /\ call = NoCall
  /\ \E breadth_3day \in Breadth3Day, momentum \in Momenta,
        vix_3day \in Vix3Day, vix_day1 \in VixDay1,
        vix_change \in VixChanges,
        participation_3day \in Participation3Day :
       calculate_fear_greed_index(breadth_3day, breadth_3day + momentum,
                                  vix_3day, vix_day1, vix_day1 + vix_change,
                                  participation_3day)

SpecFearGreed == InitFearGreed /\ [][NextFearGreed]_vars

(***************************************************************************)
(* The entry points: the method calls of main (breadth_analyzer.py), of    *)
(* load_data followed by display_historical_trend (app.py) and of          *)
(* quick_analysis (run_analysis.py), in the order of the source            *)
(***************************************************************************)
Entries == { "main", "dashboard", "quick_analysis" }

Program(entry) ==
  CASE entry = "main" ->
         << "classify_stocks", "calculate_breadth_score",
            "calculate_sector_breadth", "calculate_magnitude_analysis",
            "classify_regime", "get_moving_average", "get_trend",
            "detect_divergence", "save_score" >>
    [] entry = "dashboard" ->
         << "classify_stocks", "calculate_breadth_score",
            "calculate_sector_breadth", "calculate_magnitude_analysis",
            "classify_regime", "save_score", "get_moving_average",
            "get_trend", "detect_divergence" >>
    [] entry = "quick_analysis" ->
         << "classify_stocks", "calculate_breadth_score", "classify_regime" >>
    [] OTHER -> << >>

\* the entry point is about to call op
At(op) ==
  /\ run.at \in 1..Len(Program(run.entry))
  /\ Program(run.entry)[run.at] = op

\* the entry points return before the analysis when the table is empty
EntryTables == TablesOn({ 1 }) \cup TablesOn({ 2 }) \cup { ScenarioTable }

\* stores of earlier days: none, one record, scores falling over three
\* days, scores rising over three days
StoreOf(scores) ==
  [ d \in 1..Len(scores) |->
      [ date |-> d, score |-> scores[d], regime |-> SaveRegime(scores[d]) ] ]
EntryStores ==
  { NoFile, JsonFile(StoreOf(<< 0 >>)), JsonFile(StoreOf(<< 900, 500, 200 >>)),
    JsonFile(StoreOf(<< -900, -500, -200 >>)) }

\* the days of datetime.now(): a day after the stored ones
EntryDays == { 4 }

InitEntry ==
  /\ df \in { [ columns |-> BaseColumns, rows |-> t ] : t \in EntryTables }
  /\ breadth_data = << >>
  /\ sector_data = << >>
  /\ magnitude_data = << >>
  /\ regime = "None"
  /\ action = << >>
  /\ REGIMES = REGIMES_TABLE
  /\ regime_calls = 0
  /\ file \in EntryStores
  /\ call = NoCall
  /\ run \in { [ entry |-> e, at |-> 1, saved |-> << >> ] : e \in Entries }
  /\ writers = NoWriters
  /\ failed_stocks = << >>

Returned(op) == [ op |-> op, args |-> << >>, value |-> [ kind |-> "None" ] ]

entry_classify_stocks ==
  /\ At("classify_stocks")
  /\ df' = [ columns |-> df.columns \cup { "category" },
             rows |-> ClassifiedRows(df.rows) ]
  /\ call' = Returned("classify_stocks")
  /\ run' = [ run EXCEPT !.at = @ + 1 ]
  /\ UNCHANGED << breadth_data, sector_data, magnitude_data, regime, action,
                  REGIMES, regime_calls, file, writers, failed_stocks >>

entry_calculate_breadth_score ==
  /\ At("calculate_breadth_score")
  /\ "category" \in df.columns
  /\ breadth_data' = BreadthData(df.rows)
  /\ call' = Returned("calculate_breadth_score")
  /\ run' = [ run EXCEPT !.at = @ + 1 ]
  /\ UNCHANGED << df, sector_data, magnitude_data, regime, action,
                  REGIMES, regime_calls, file, writers, failed_stocks >>

entry_calculate_sector_breadth ==
  /\ At("calculate_sector_breadth")
  /\ sector_data' = SectorData(df.rows)
  /\ call' = Returned("calculate_sector_breadth")
  /\ run' = [ run EXCEPT !.at = @ + 1 ]
  /\ UNCHANGED << df, breadth_data, magnitude_data, regime, action,
                  REGIMES, regime_calls, file, writers, failed_stocks >>

entry_calculate_magnitude_analysis ==
  /\ At("calculate_magnitude_analysis")
  /\ magnitude_data' = MagnitudeData(df.rows)
  /\ call' = Returned("calculate_magnitude_analysis")
  /\ run' = [ run EXCEPT !.at = @ + 1 ]
  /\ UNCHANGED << df, breadth_data, sector_data, regime, action,
                  REGIMES, regime_calls, file, writers, failed_stocks >>

entry_classify_regime ==
  /\ At("classify_regime")
  /\ breadth_data # << >>
  /\ sector_data # << >>
  /\ LET score == breadth_data.score
         participation == sector_data.participation_pct
         regime_key == RegimeKey(score)
         adjusted == AdjustedAction(REGIMES, regime_key,
                                    NarrowLeadership(participation, score))
     IN  /\ regime' = REGIMES[regime_key].name
         /\ action' = adjusted.action
         /\ REGIMES' = adjusted.regimes
         /\ call' = [ op |-> "classify_regime", args |-> << >>,
                      value |-> [ kind |-> "tuple",
                                  text |-> REGIMES[regime_key].name ] ]
  /\ regime_calls' = IF regime_calls < MaxRegimeCalls
                     THEN regime_calls + 1 ELSE regime_calls
  /\ run' = [ run EXCEPT !.at = @ + 1 ]
  /\ UNCHANGED << df, breadth_data, magnitude_data, sector_data, file,
                  writers, failed_stocks >>

\* self.sector_data['participation_pct'] on the empty dictionary: the
\* KeyError ends the entry point
entry_classify_regime_raises ==
  /\ At("classify_regime")
  /\ breadth_data = << >> \/ sector_data = << >>
  /\ call' = [ op |-> "classify_regime", args |-> << >>,
               value |-> Raise("KeyError") ]
  /\ run' = [ run EXCEPT !.at = Len(Program(run.entry)) + 1 ]
  /\ UNCHANGED << analyzerVars, file, writers, failed_stocks >>

\* display_historical_trend returns before its statistics when the store
\* holds fewer than two records
entry_display_returns ==
  /\ run.entry = "dashboard"
  /\ At("get_moving_average")
  /\ Len(load_history(file)) < 2
  /\ call' = Returned("display_historical_trend")
  /\ run' = [ run EXCEPT !.at = Len(Program(run.entry)) + 1 ]
  /\ UNCHANGED << analyzerVars, file, writers, failed_stocks >>

entry_get_moving_average ==
  /\ At("get_moving_average")
  /\ run.entry = "dashboard" => Len(load_history(file)) >= 2
  /\ call' = [ op |-> "get_moving_average",
               args |-> [ period |-> AVERAGE_PERIOD ],
               value |-> MovingAverage(file, AVERAGE_PERIOD) ]
  /\ run' = [ run EXCEPT !.at = @ + 1 ]
  /\ UNCHANGED << analyzerVars, file, writers, failed_stocks >>

entry_get_trend ==
  /\ At("get_trend")
  /\ call' = [ op |-> "get_trend", args |-> [ lookback |-> 5 ],
               value |-> [ kind |-> "text", text |-> Trend(file, 5) ] ]
  /\ run' = [ run EXCEPT !.at = @ + 1 ]
  /\ UNCHANGED << analyzerVars, file, writers, failed_stocks >>

entry_detect_divergence ==
  /\ At("detect_divergence")
  /\ call' = [ op |-> "detect_divergence",
               args |-> [ current_score |-> breadth_data.score ],
               value |-> Divergence(file, breadth_data.score) ]
  /\ run' = [ run EXCEPT !.at = @ + 1 ]
  /\ UNCHANGED << analyzerVars, file, writers, failed_stocks >>

\* save_score(datetime.now(), breadth_data['score'], regime)
entry_save_score(date) ==
  /\ At("save_score")
  /\ file' = JsonFile(SavedHistory(file, date, breadth_data.score, regime))
  /\ call' = [ op |-> "save_score",
               args |-> [ date |-> date, score |-> breadth_data.score,
                          regime |-> regime ],
               value |-> [ kind |-> "None" ] ]
  /\ run' = [ run EXCEPT !.at = @ + 1,
                         !.saved = << [ date |-> strftime(date),
                                        score |-> breadth_data.score,
                                        regime |-> regime ] >> ]
  /\ UNCHANGED << analyzerVars, writers, failed_stocks >>

NextEntry ==
  \/ entry_classify_stocks
  \/ entry_calculate_breadth_score
  \/ entry_calculate_sector_breadth
  \/ entry_calculate_magnitude_analysis
  \/ entry_classify_regime
  \/ entry_classify_regime_raises
  \/ entry_display_returns
  \/ entry_get_moving_average
  \/ entry_get_trend
  \/ entry_detect_divergence
  \/ \E date \in [ day : EntryDays, hour : SaveHours ] : entry_save_score(date)

SpecEntry == InitEntry /\ [][NextEntry]_vars

(***************************************************************************)
(* save_score called by processes that share the history file: the load    *)
(* and the dump of one call are two steps, and nothing locks the file      *)
(* between them                                                            *)
(***************************************************************************)
MaxWriters == 2

Idle ==
  [ at |-> "idle", history |-> << >>, date |-> [ day |-> 0, hour |-> 0 ],
    score |-> 0, regime |-> "" ]

WriterStores ==
  { NoFile, JsonFile(StoreOf(<< 500, 0 >>)), JsonFile(FullStore) }

\* the saves of the writers: the oldest day of FullStore and the two days
\* after its newest, two scores
WriterDateTimes == [ day : { 1, HISTORY_DAYS + 1, HISTORY_DAYS + 2 }, hour : { 9 } ]
WriterScores == { 0, 500 }

InitWriters ==
  /\ df = [ columns |-> BaseColumns, rows |-> << >> ]
  /\ breadth_data = << >>
  /\ sector_data = << >>
  /\ magnitude_data = << >>
  /\ regime = "None"
  /\ action = << >>
  /\ REGIMES = REGIMES_TABLE
  /\ regime_calls = 0
  /\ file \in WriterStores
  /\ call = NoCall
  /\ run = NoRun
  /\ writers \in { [ w \in 1..n |-> Idle ] : n \in 1..MaxWriters }
  /\ failed_stocks = << >>

\* history = self.load_history()
save_score_load(w, date, score, regime_label) ==
  /\ writers[w].at = "idle"
  /\ writers' = [ writers EXCEPT ![w] =
                    [ at |-> "loaded", history |-> load_history(file),
                      date |-> date, score |-> score, regime |-> regime_label ] ]
  /\ UNCHANGED << analyzerVars, file, call, run, failed_stocks >>

\* the rest of save_score: filter, append, slice, json.dump
save_score_dump(w) ==
  /\ writers[w].at = "loaded"
  /\ file' = JsonFile(WrittenHistory(writers[w].history, writers[w].date,
                                     writers[w].score, writers[w].regime))
  /\ call' = [ op |-> "save_score",
               args |-> [ date |-> writers[w].date, score |-> writers[w].score,
                          regime |-> writers[w].regime ],
               value |-> [ kind |-> "None" ] ]
  /\ writers' = [ writers EXCEPT ![w].at = "done" ]
  /\ UNCHANGED << analyzerVars, run, failed_stocks >>

NextWriters ==
  \/ \E w \in DOMAIN writers, date \in WriterDateTimes, score \in WriterScores :
       save_score_load(w, date, score, SaveRegime(score))
  \/ \E w \in DOMAIN writers : save_score_dump(w)

SpecWriters == InitWriters /\ [][NextWriters]_vars

(***************************************************************************)
(* DataFetcher: fetch_all and retry_failed_stocks, one action per method;  *)
(* which fetch_quote calls return a quote is chosen freely                 *)
(***************************************************************************)
MaxRetries == 2

\* DataFetcher.stock_list, a list of distinct symbols
stock_list == Universe
StockSet == { stock_list[i] : i \in 1..Len(stock_list) }

\* self.data before the first fetch_all
NoData == [ kind |-> "None" ]

\* the dictionary fetch_quote returns for a symbol it could fetch; what
\* the quote says plays no part in the two methods
fetch_quote(symbol) == Row(symbol, 0, 100)

Quotes_Of(symbols) == [ i \in 1..Len(symbols) |-> fetch_quote(symbols[i]) ]

\* pd.DataFrame(results): no columns when the list is empty
DataFrame(results) ==
  [ columns |-> IF results = << >> THEN {} ELSE BaseColumns, rows |-> results ]

\* pd.concat([data, retry_df], ignore_index=True)
Concat(data, retry_df) ==
  [ columns |-> data.columns \cup retry_df.columns,
    rows |-> data.rows \o retry_df.rows ]

\* Attempt that leaves the recovered symbols in the list of the next attempt
Attempt_KeepsRecovered(attempt, max_retries, loop, ok) ==
  LET recovered == SelectSeq(loop.failed_stocks, LAMBDA sym : sym \in ok)
      missed == SelectSeq(loop.failed_stocks, LAMBDA sym : sym \notin ok)
  IN  [ failed_stocks |-> IF missed = << >> THEN << >> ELSE loop.failed_stocks,
        retry_results |-> loop.retry_results \o Quotes_Of(recovered),
        still_failed |-> IF attempt = max_retries - 1
                         THEN loop.still_failed \o missed
                         ELSE loop.still_failed ]

\* one pass of `for attempt in range(max_retries)`: ok holds the symbols
\* whose fetch_quote succeeds in this pass
Attempt(attempt, max_retries, loop, ok) ==
  LET recovered == SelectSeq(loop.failed_stocks, LAMBDA sym : sym \in ok)
      missed == SelectSeq(loop.failed_stocks, LAMBDA sym : sym \notin ok)
      retry_results == loop.retry_results \o Quotes_Of(recovered)
      got == { retry_results[i].symbol : i \in 1..Len(retry_results) }
  IN  [ failed_stocks |->
          SelectSeq(loop.failed_stocks, LAMBDA sym : sym \notin got),
        retry_results |-> retry_results,
        still_failed |-> IF attempt = max_retries - 1
                         THEN loop.still_failed \o missed
                         ELSE loop.still_failed ]

\* the loop over the attempts, left early when nothing is failed any more
RECURSIVE RetryLoop(_, _, _, _)
RetryLoop(attempt, max_retries, loop, fetched) ==
  IF attempt >= max_retries THEN loop
  ELSE LET next == Attempt(attempt, max_retries, loop, fetched[attempt + 1])
       IN  IF next.failed_stocks = << >> THEN next
           ELSE RetryLoop(attempt + 1, max_retries, next, fetched)

InitFetcher ==
  /\ df = NoData
  /\ breadth_data = << >>
  /\ sector_data = << >>
  /\ magnitude_data = << >>
  /\ regime = "None"
  /\ action = << >>
  /\ REGIMES = REGIMES_TABLE
  /\ regime_calls = 0
  /\ file = NoFile
  /\ call = NoCall
  /\ run = NoRun
  /\ writers = NoWriters
  /\ failed_stocks = << >>

fetch_all(ok) ==
  /\ df' = DataFrame(Quotes_Of(SelectSeq(stock_list, LAMBDA sym : sym \in ok)))
  /\ failed_stocks' = SelectSeq(stock_list, LAMBDA sym : sym \notin ok)
  /\ call' = [ op |-> "fetch_all", args |-> << >>, value |-> [ kind |-> "tuple" ] ]
  /\ UNCHANGED << breadth_data, sector_data, magnitude_data, regime, action,
                  REGIMES, regime_calls, file, run, writers >>

retry_failed_stocks(max_retries, fetched) ==
  /\ call' = [ op |-> "retry_failed_stocks",
               args |-> [ max_retries |-> max_retries ],
               value |-> [ kind |-> "tuple" ] ]
  /\ IF failed_stocks = << >>
     THEN UNCHANGED << df, failed_stocks >>
     ELSE LET loop == RetryLoop(0, max_retries,
                                [ failed_stocks |-> failed_stocks,
                                  retry_results |-> << >>,
                                  still_failed |-> << >> ], fetched)
          IN  /\ df' = IF loop.retry_results # << >>
                       THEN Concat(df, DataFrame(loop.retry_results))
                       ELSE df
              /\ failed_stocks' = loop.still_failed
  /\ UNCHANGED << breadth_data, sector_data, magnitude_data, regime, action,
                  REGIMES, regime_calls, file, run, writers >>

NextFetcher ==
  \/ \E ok \in SUBSET StockSet : fetch_all(ok)
  \/ \E max_retries \in 1..MaxRetries :
       \E fetched \in [1..max_retries -> SUBSET StockSet] :
         retry_failed_stocks(max_retries, fetched)

SpecFetcher == InitFetcher /\ [][NextFetcher]_vars

(***************************************************************************)
(* Properties of the analyzer                                              *)
(***************************************************************************)
Classified == "category" \in df.columns

\* the number of rows of the table whose category is cat
NumCategory(cat) ==
  Cardinality({ i \in 1..Len(df.rows) : df.rows[i].category = cat })

\* the weighted numerator of the breadth score, from the table's categories
WeightedNet ==
  2 * NumCategory("Strong Bull") + NumCategory("Weak Bull")
    - 2 * NumCategory("Strong Bear") - NumCategory("Weak Bear")

\* stored (an integer number of 1/units) is the quotient n / d as far as
\* the stored precision can hold it: nearer than half a unit
StoredQuotient(stored, n, d, units) == 2 * Abs(units * n - stored * d) <= d

\* C1: after classify_stocks every row carries exactly one of the five
\* categories, the first matching rule of: pct_change > STRONG_MOVE with
\* volume_ratio > VOLUME_MULTIPLIER is Strong Bull, pct_change > STRONG_MOVE
\* otherwise is Weak Bull, pct_change < -STRONG_MOVE with volume_ratio >
\* VOLUME_MULTIPLIER is Strong Bear, pct_change < -STRONG_MOVE otherwise is
\* Weak Bear, anything else is Neutral; pct_change of exactly +/-STRONG_MOVE
\* is Neutral and volume_ratio of exactly VOLUME_MULTIPLIER with a strong
\* move is the Weak category.
C1_ClassifyFirstMatch ==
  Classified =>
    \A i \in 1..Len(df.rows) :
      LET p == df.rows[i].pct_change
          v == df.rows[i].volume_ratio
          c == df.rows[i].category
      IN  /\ c \in Categories
          /\ c = IF p > STRONG_MOVE /\ v > VOLUME_MULTIPLIER THEN "Strong Bull"
                 ELSE IF p > STRONG_MOVE THEN "Weak Bull"
                 ELSE IF p < -STRONG_MOVE /\ v > VOLUME_MULTIPLIER THEN "Strong Bear"
                 ELSE IF p < -STRONG_MOVE THEN "Weak Bear"
                 ELSE "Neutral"
          /\ (p = STRONG_MOVE \/ p = -STRONG_MOVE) => c = "Neutral"
          /\ (v = VOLUME_MULTIPLIER /\ p > STRONG_MOVE) => c = "Weak Bull"
          /\ (v = VOLUME_MULTIPLIER /\ p < -STRONG_MOVE) => c = "Weak Bear"

\* a classified table with a row exactly at STRONG_MOVE on high volume
\* (Neutral) and a strong down move exactly at VOLUME_MULTIPLIER (Weak Bear)
C1_Witness ==
  /\ Classified
  /\ \E i, j \in 1..Len(df.rows) :
       /\ df.rows[i].pct_change = STRONG_MOVE
       /\ df.rows[i].volume_ratio > VOLUME_MULTIPLIER
       /\ df.rows[i].category = "Neutral"
       /\ df.rows[j].pct_change < -STRONG_MOVE
       /\ df.rows[j].volume_ratio = VOLUME_MULTIPLIER
       /\ df.rows[j].category = "Weak Bear"

\* C2: the breadth snapshot's total is the sum of its five category counts
\* and the number of rows of the table.
C2_TotalIsSumOfCounts ==
  breadth_data # << >> =>
    /\ breadth_data.total = breadth_data.strong_bulls + breadth_data.weak_bulls
                              + breadth_data.neutral + breadth_data.weak_bears
                              + breadth_data.strong_bears
    /\ breadth_data.total = Len(df.rows)

\* a snapshot of a table with a neutral and a non-neutral row
C2_Witness ==
  /\ breadth_data # << >>
  /\ breadth_data.total >= 2
  /\ breadth_data.neutral >= 1
  /\ breadth_data.strong_bears >= 1

\* C3: the score of the snapshot is (2*StrongBull + WeakBull - 2*StrongBear
\* - WeakBear) / total for a non-empty table, held at 3 decimals, and is 0
\* for an empty table.
C3_ScoreFormula ==
  breadth_data # << >> =>
    /\ Len(df.rows) > 0 =>
         StoredQuotient(breadth_data.score, WeightedNet, Len(df.rows), SCORE_UNITS)
    /\ Len(df.rows) = 0 => breadth_data.score = 0

\* a snapshot of two rows, a Strong Bull and a Weak Bear: score (2 - 1) / 2
C3_Witness ==
  /\ breadth_data # << >>
  /\ Len(df.rows) = 2
  /\ NumCategory("Strong Bull") = 1
  /\ NumCategory("Weak Bear") = 1
  /\ breadth_data.score = 500

\* C4: the score lies in [-2, 2]; it is +2 when every row is Strong Bull,
\* -2 when every row is Strong Bear, 0 when every row is Neutral or the
\* table is empty.
C4_ScoreRange ==
  breadth_data # << >> =>
    LET n == Len(df.rows) IN
    /\ breadth_data.score >= -2 * SCORE_UNITS
    /\ breadth_data.score <= 2 * SCORE_UNITS
    /\ (n > 0 /\ NumCategory("Strong Bull") = n) => breadth_data.score = 2 * SCORE_UNITS
    /\ (n > 0 /\ NumCategory("Strong Bear") = n) => breadth_data.score = -2 * SCORE_UNITS
    /\ NumCategory("Neutral") = n => breadth_data.score = 0

\* a snapshot of a table of Strong Bears only
C4_Witness ==
  /\ breadth_data # << >>
  /\ Len(df.rows) >= 2
  /\ NumCategory("Strong Bear") = Len(df.rows)
  /\ breadth_data.score = -2 * SCORE_UNITS
\* the regime names from the highest band to the lowest
RegimeRank(name) == CHOOSE i \in 1..Len(RegimeKeys) : REGIMES_TABLE[RegimeKeys[i]].name = name

\* the band of a score (in thousandths), scanning from the highest
BandOf(score) ==
  IF score > 800 THEN "EXTREME_BULL"
  ELSE IF score >= 400 THEN "STRONG_BULL"
  ELSE IF score >= 150 THEN "WEAK_BULL"
  ELSE IF score >= -150 THEN "NO_TRADE"
  ELSE IF score >= -400 THEN "WEAK_BEAR"
  ELSE IF score >= -800 THEN "STRONG_BEAR"
  ELSE "EXTREME_BEAR"

\* every 0.05 of the score range and the values next to each band boundary
ScoreGrid ==
  { 50 * k - 2000 : k \in 0..80 }
    \cup { b + e : b \in { 800, 400, 150, -150, -400, -800 }, e \in { -1, 1 } }

Warnings(text) == Cardinality({ i \in 1..Len(text) : text[i] = NARROW_WARNING })

\* C6: the action text of classify_regime is the regime's action text,
\* followed by the warning iff participation_pct < 40 and score > 0; the
\* regime is the band's regime either way, the REGIMES table is never
\* modified, and the warning occurs at most once however often
\* classify_regime is called.
C6_NarrowLeadership ==
  /\ REGIMES = REGIMES_TABLE
  /\ regime # "None" =>
       LET score == breadth_data.score
           narrow == sector_data.participation_pct < 4000 /\ score > 0
           base == REGIMES_TABLE[BandOf(score)].action
       IN  /\ regime = REGIMES_TABLE[BandOf(score)].name
           /\ action = IF narrow THEN base \o << NARROW_WARNING >> ELSE base
           /\ Warnings(action) = IF narrow THEN 1 ELSE 0

\* classify_regime was called more than once on a positive score with no
\* bullish sector, and the action text carries one warning
C6_Witness ==
  /\ regime_calls >= 2
  /\ breadth_data.score > 0
  /\ sector_data.total_count >= 1
  /\ sector_data.participation_pct = 0
  /\ Warnings(action) = 1

\* the rows of the table whose symbol is a member of the sector
RowsOf(sector) == { i \in 1..Len(df.rows) : df.rows[i].symbol \in SECTORS[sector] }

\* C7: sector_data has no entry for a sector without matching rows;
\* participation_pct is 100 * (included sectors with status Bullish) /
\* (included sectors), held at 2 decimals, 0 when no sector is included,
\* and within [0, 100]; a row whose symbol is in no sector is counted in no
\* sector.
C7_SectorParticipation ==
  sector_data # << >> =>
    LET sectors == sector_data.sectors
        included == DOMAIN sectors
        bullish == { s \in included : sectors[s].status = "Bullish" }
        pct == sector_data.participation_pct
    IN  /\ included \subseteq SectorNames
        /\ \A s \in included : RowsOf(s) # {}
        /\ \A s \in included : sectors[s].total = Cardinality(RowsOf(s))
        /\ included # {} =>
             StoredQuotient(pct, 100 * Cardinality(bullish),
                            Cardinality(included), PERCENT_UNITS)
        /\ included = {} => pct = 0
        /\ pct >= 0
        /\ pct <= 100 * PERCENT_UNITS

\* two sectors included, one of them Bullish, a third sector without rows
\* left out, and a strongly moving row that belongs to no sector
C7_Witness ==
  /\ sector_data # << >>
  /\ DOMAIN sector_data.sectors = { "Bank", "IT & Software" }
  /\ sector_data.sectors["IT & Software"].status = "Bullish"
  /\ sector_data.sectors["Bank"].status # "Bullish"
  /\ sector_data.participation_pct = 5000
  /\ \E i \in 1..Len(df.rows) :
       /\ \A s \in SectorNames : df.rows[i].symbol \notin SECTORS[s]
       /\ df.rows[i].pct_change > STRONG_MOVE

\* the number of rows of a sector whose pct_change satisfies P
NumIn(sector, P(_)) ==
  Cardinality({ i \in RowsOf(sector) : P(df.rows[i].pct_change) })

\* C8: per included sector the four buckets count up_strong: pct >
\* STRONG_MOVE, up_moderate: MODERATE_MOVE < pct <= STRONG_MOVE,
\* down_moderate: -STRONG_MOVE <= pct < -MODERATE_MOVE, down_strong: pct <
\* -STRONG_MOVE; no row is in two buckets and the counts sum to at most the
\* sector total; net = up_strong - down_strong; score = (2*up_strong +
\* up_moderate - 2*down_strong - down_moderate) / total, held at 3
\* decimals; status is Bullish, Bearish or Neutral as net is positive,
\* negative or zero.
C8_SectorBuckets ==
  sector_data # << >> =>
    \A s \in DOMAIN sector_data.sectors :
      LET e == sector_data.sectors[s]
          InBuckets(p) ==
            Cardinality({ b \in 1..4 :
              \/ b = 1 /\ p > STRONG_MOVE
              \/ b = 2 /\ MODERATE_MOVE < p /\ p <= STRONG_MOVE
              \/ b = 3 /\ -STRONG_MOVE <= p /\ p < -MODERATE_MOVE
              \/ b = 4 /\ p < -STRONG_MOVE })
      IN  /\ e.up_strong = NumIn(s, LAMBDA p : p > STRONG_MOVE)
          /\ e.up_moderate = NumIn(s, LAMBDA p : MODERATE_MOVE < p /\ p <= STRONG_MOVE)
          /\ e.down_moderate = NumIn(s, LAMBDA p : -STRONG_MOVE <= p /\ p < -MODERATE_MOVE)
          /\ e.down_strong = NumIn(s, LAMBDA p : p < -STRONG_MOVE)
          /\ e.up_strong + e.up_moderate + e.down_moderate + e.down_strong
               = NumIn(s, LAMBDA p : InBuckets(p) = 1)
          /\ NumIn(s, LAMBDA p : InBuckets(p) > 1) = 0
          /\ e.up_strong + e.up_moderate + e.down_moderate + e.down_strong <= e.total
          /\ e.net = e.up_strong - e.down_strong
          /\ StoredQuotient(e.score,
                            2 * e.up_strong + e.up_moderate
                              - 2 * e.down_strong - e.down_moderate,
                            e.total, SCORE_UNITS)
          /\ e.status = IF e.net > 0 THEN "Bullish"
                        ELSE IF e.net < 0 THEN "Bearish" ELSE "Neutral"

\* a sector of two rows, one exactly at STRONG_MOVE (up_moderate) and one
\* unbucketed: the score is positive and the status Neutral
C8_Witness ==
  /\ sector_data # << >>
  /\ "IT & Software" \in DOMAIN sector_data.sectors
  /\ sector_data.sectors["IT & Software"].total = 2
  /\ sector_data.sectors["IT & Software"].up_moderate = 1
  /\ NumIn("IT & Software", LAMBDA p : p = STRONG_MOVE) = 1
  /\ sector_data.sectors["IT & Software"].score = 500
  /\ sector_data.sectors["IT & Software"].status = "Neutral"

\* the number of rows of the table whose pct_change satisfies P
NumPct(P(_)) == Cardinality({ i \in 1..Len(df.rows) : P(df.rows[i].pct_change) })

\* C9: the six magnitude buckets hold every row at most once, every row
\* with pct_change > STRONG_MOVE in exactly one up bucket and every row
\* with pct_change < -STRONG_MOVE in exactly one down bucket; ultra_score
\* is (3*explosive_up + 2*strong_up + moderate_up - 3*explosive_down -
\* 2*strong_down - moderate_down) / total, held at 3 decimals, 0 for an
\* empty table, and within [-3, 3].
C9_MagnitudeBuckets ==
  magnitude_data # << >> =>
    LET m == magnitude_data
        n == Len(df.rows)
        UpBuckets(p) ==
          Cardinality({ b \in 1..3 :
            \/ b = 1 /\ ExplosiveUp(p)
            \/ b = 2 /\ StrongUp(p)
            \/ b = 3 /\ ModerateUp(p) })
        DownBuckets(p) ==
          Cardinality({ b \in 1..3 :
            \/ b = 1 /\ ExplosiveDown(p)
            \/ b = 2 /\ StrongDown(p)
            \/ b = 3 /\ ModerateDown(p) })
        up == m.explosive_up + m.strong_up + m.moderate_up
        down == m.explosive_down + m.strong_down + m.moderate_down
    IN  /\ \A i \in 1..n :
             LET p == df.rows[i].pct_change IN
             /\ UpBuckets(p) + DownBuckets(p) <= 1
             /\ p > STRONG_MOVE => UpBuckets(p) = 1
             /\ p < -STRONG_MOVE => DownBuckets(p) = 1
        /\ up = NumPct(LAMBDA p : UpBuckets(p) = 1)
        /\ down = NumPct(LAMBDA p : DownBuckets(p) = 1)
        /\ up >= NumPct(LAMBDA p : p > STRONG_MOVE)
        /\ down >= NumPct(LAMBDA p : p < -STRONG_MOVE)
        /\ up + down <= n
        /\ n > 0 =>
             StoredQuotient(m.ultra_score,
                            3 * m.explosive_up + 2 * m.strong_up + m.moderate_up
                              - 3 * m.explosive_down - 2 * m.strong_down
                              - m.moderate_down,
                            n, SCORE_UNITS)
        /\ n = 0 => m.ultra_score = 0
        /\ m.ultra_score >= -3 * SCORE_UNITS
        /\ m.ultra_score <= 3 * SCORE_UNITS
\* the regime key of the quotient n / d, d > 0, compared as a fraction
ExactBand(n, d) ==
  IF SCORE_UNITS * n > EXTREME_BULL * d THEN "EXTREME_BULL"
  ELSE IF SCORE_UNITS * n >= STRONG_BULL * d THEN "STRONG_BULL"
  ELSE IF SCORE_UNITS * n >= WEAK_BULL * d THEN "WEAK_BULL"
  ELSE IF SCORE_UNITS * n >= NO_TRADE_LOW * d THEN "NO_TRADE"
  ELSE IF SCORE_UNITS * n >= WEAK_BEAR * d THEN "WEAK_BEAR"
  ELSE IF SCORE_UNITS * n >= STRONG_BEAR * d THEN "STRONG_BEAR"
  ELSE "EXTREME_BEAR"

\* C18: the score kept in the breadth snapshot is the exact quotient of the
\* weighted count and the number of rows, not a rounded one, and the regime
\* is the band that the exact quotient lies in.
C18_ExactScoreKept ==
  Len(df.rows) > 0 =>
    /\ breadth_data # << >> =>
         breadth_data.score * Len(df.rows) = SCORE_UNITS * WeightedNet
    /\ regime # "None" =>
         regime = REGIMES_TABLE[ExactBand(WeightedNet, Len(df.rows))].name

(***************************************************************************)
(* Properties of the history store                                         *)
(***************************************************************************)
\* C10: the persisted history never holds two records with the same date.
C10_NoDuplicateDate ==
  file.state = "json" =>
    \A i, j \in 1..Len(file.records) :
      file.records[i].date = file.records[j].date => i = j

\* a full store whose oldest date was saved again: the store has the same
\* length and that date's only record is the new one, at the end
C10_Witness ==
  /\ file.state = "json"
  /\ Len(file.records) = HISTORY_DAYS
  /\ file.records[Len(file.records)].date = 1
  /\ file.records[Len(file.records)].score = 500
  /\ file.records[1].date = 2

\* the dates of the records of a history list
Dates(history) == { history[i].date : i \in 1..Len(history) }

\* the record at the end of a history list
Newest(history) == history[Len(history)]

\* the record save_score makes of its arguments
SavedRecord(args) ==
  [ date |-> strftime(args.date), score |-> args.score, regime |-> args.regime ]

\* C11: after every save_score the file is a list of at most HISTORY_DAYS
\* records; a save of a date that is not in a list of HISTORY_DAYS records
\* drops exactly the first record, keeps the others in their order and puts
\* the new record after them.
C11_CapDropsOldest ==
  [][ call'.op = "save_score" =>
        /\ file'.state = "json"
        /\ Len(file'.records) <= HISTORY_DAYS
        /\ ( /\ file.state = "json"
             /\ Len(file.records) = HISTORY_DAYS
             /\ strftime(call'.args.date) \notin Dates(file.records) )
           => file'.records = Append(Tail(file.records), SavedRecord(call'.args))
    ]_vars

\* the full store of days 1..HISTORY_DAYS after a save of the day after its
\* last one: day 1 is gone, days 2..HISTORY_DAYS + 1 remain in order
C11_Witness ==
  /\ file.state = "json"
  /\ Len(file.records) = HISTORY_DAYS
  /\ \A i \in 1..HISTORY_DAYS : file.records[i].date = i + 1
  /\ call.op = "save_score"
  /\ call.args.date.day = HISTORY_DAYS + 1

\* the number of records of a history list that carry the date
NumWithDate(history, date) ==
  Cardinality({ i \in 1..Len(history) : history[i].date = date })

\* C12: a save_score for a date the list already holds leaves the length
\* and the set of dates as they were and leaves that date with one record,
\* the new one; a save_score with the arguments of the save_score just
\* before it leaves the file as the first one wrote it.
C12_ReplaceAndIdempotent ==
  [][ call'.op = "save_score" =>
        /\ ( file.state = "json"
             /\ strftime(call'.args.date) \in Dates(file.records) )
           => /\ Len(file'.records) = Len(file.records)
              /\ Dates(file'.records) = Dates(file.records)
              /\ NumWithDate(file'.records, strftime(call'.args.date)) = 1
              /\ \E i \in 1..Len(file'.records) :
                   file'.records[i] = SavedRecord(call'.args)
        /\ ( call.op = "save_score" /\ call'.args = call.args )
           => file' = file
    ]_vars

\* the newest date of the full store saved again later the same day with
\* another score: still HISTORY_DAYS records from day 1 on, the newest
\* date carrying the new score
C12_Witness ==
  /\ file.state = "json"
  /\ Len(file.records) = HISTORY_DAYS
  /\ file.records[1].date = 1
  /\ Newest(file.records) = [ date |-> HISTORY_DAYS, score |-> 500,
                              regime |-> SaveRegime(500) ]
  /\ call.op = "save_score"
  /\ call.args.date = [ day |-> HISTORY_DAYS, hour |-> 16 ]

\* C13: the persisted history is in ascending date order after any
\* sequence of save_score calls, whatever dates they carry.
C13_AscendingDates ==
  file.state = "json" =>
    \A i, j \in 1..Len(file.records) :
      i < j => file.records[i].date < file.records[j].date

\* the number of records after position i that do not carry the date
NumLaterOthers(history, i, date) ==
  Cardinality({ j \in (i + 1)..Len(history) : history[j].date # date })

\* C14: save_score removes from the history file only the record of the
\* saved date and the records pushed beyond the cap; every other record the
\* file held is in the file afterwards, also when the file it found could
\* not be parsed.
C14_NoWholesaleLoss ==
  [][ call'.op = "save_score" =>
        LET date == strftime(call'.args.date) IN
        \A i \in 1..Len(file.records) :
          ( /\ file.records[i].date # date
            /\ NumLaterOthers(file.records, i, date) < HISTORY_DAYS - 1 )
          => \E k \in 1..Len(file'.records) :
               file'.records[k] = file.records[i]
    ]_vars

\* the smaller of two numbers
Min(a, b) == IF a < b THEN a ELSE b

\* the scores of the list the reader loaded: none from a file that is
\* absent or does not parse
LoadedScores ==
  IF file.state = "json"
  THEN [ i \in 1..Len(file.records) |-> file.records[i].score ]
  ELSE << >>

\* the sum of the last k of a sequence of numbers
SumOfLast(scores, k) ==
  LET from == Len(scores) - k + 1
      Partial[i \in (from - 1)..Len(scores)] ==
        IF i < from THEN 0 ELSE Partial[i - 1] + scores[i]
  IN  Partial[Len(scores)]

\* C15: get_moving_average(period) returns None on an empty history and
\* otherwise the mean, to SCORE_DECIMALS, of the scores of the most recent
\* min(period, length) records, a number of records that is never zero.
C15_MovingAverage ==
  call.op = "get_moving_average" =>
    LET n == Len(LoadedScores)
        k == Min(call.args.period, n)
    IN  /\ n = 0 => call.value = [ kind |-> "None" ]
        /\ n > 0 => /\ k > 0
                    /\ call.value.kind = "number"
                    /\ StoredQuotient(call.value.num,
                                      SumOfLast(LoadedScores, k), k, 1)

\* the default average over a history of two records, scores -0.5 and 0:
\* the mean of the two, -0.25
C15_Witness ==
  /\ call.op = "get_moving_average"
  /\ call.args.period = AVERAGE_PERIOD
  /\ Len(LoadedScores) = 2
  /\ LoadedScores = << -500, 0 >>
  /\ call.value.num = -250

\* C16: get_trend(lookback) returns 'Insufficient data' exactly when the
\* history has fewer than lookback records; otherwise it compares the
\* oldest and the newest score of the last lookback records: Improving when
\* the newest is greater, Deteriorating when it is less, Stable when equal.
C16_Trend ==
  call.op = "get_trend" =>
    LET n == Len(LoadedScores)
        lookback == call.args.lookback
        text == call.value.text
    IN  /\ text = "Insufficient data" <=> n < lookback
        /\ n >= lookback =>
             LET oldest == LoadedScores[n - lookback + 1]
                 newest == LoadedScores[n]
             IN  /\ newest > oldest => text = "Improving"
                 /\ newest < oldest => text = "Deteriorating"
                 /\ newest = oldest => text = "Stable"

\* the default lookback over a long history whose last five scores are
\* 0, 0, 0, 0.5, 0.5: Improving, though the last step is flat
C16_Witness ==
  /\ call.op = "get_trend"
  /\ call.args.lookback = 5
  /\ Len(LoadedScores) = HISTORY_DAYS
  /\ LoadedScores[HISTORY_DAYS - 4] = 0
  /\ LoadedScores[HISTORY_DAYS - 1] = 500
  /\ LoadedScores[HISTORY_DAYS] = 500
  /\ call.value.text = "Improving"

\* C17: detect_divergence(current_score) returns 'Insufficient data' with
\* fewer than 3 records; otherwise bearish exactly when current_score > 0
\* and the last 3 scores strictly decrease, bullish exactly when
\* current_score < 0 and they strictly increase, and no divergence in every
\* other case, among them current_score = 0; nothing but current_score and
\* the last 3 scores enters the result.
C17_Divergence ==
  call.op = "detect_divergence" =>
    LET n == Len(LoadedScores)
        current_score == call.args.current_score
        kind == call.value.kind
    IN  /\ n < 3 => call.value = [ kind |-> "None", text |-> "Insufficient data" ]
        /\ n >= 3 =>
             LET a == LoadedScores[n - 2]
                 b == LoadedScores[n - 1]
                 c == LoadedScores[n]
                 bearish == current_score > 0 /\ a > b /\ b > c
                 bullish == current_score < 0 /\ a < b /\ b < c
             IN  /\ kind = "bearish" <=> bearish
                 /\ kind = "bullish" <=> bullish
                 /\ ~bearish /\ ~bullish =>
                      call.value = [ kind |-> "None", text |-> "No divergence" ]
                 /\ current_score = 0 => kind = "None"

\* a positive current score over last scores 0.5, 0, -0.5: bearish
C17_Witness ==
  /\ call.op = "detect_divergence"
  /\ call.args.current_score = 500
  /\ Len(LoadedScores) >= 3
  /\ LastN(LoadedScores, 3) = << 500, 0, -500 >>
  /\ call.value.kind = "bearish"

(***************************************************************************)
(* Properties of the advanced analysis                                     *)
(***************************************************************************)
\* C19: on a table without rows market temperature, market internals,
\* concentration risk and capitulation/euphoria each return a value; none
\* of them raises.
C19_EmptyTableTolerated ==
  ( /\ Len(df.rows) = 0
    /\ call.op \in { "calculate_market_temperature",
                     "calculate_market_internals",
                     "calculate_concentration_risk",
                     "detect_capitulation_or_euphoria" } )
  => call.value.kind # "raise"

\* the number of rows of the table whose pct_change satisfies the test
NumRows(Test(_)) ==
  Cardinality({ i \in 1..Len(df.rows) : Test(df.rows[i].pct_change) })

\* the summed volume of the rows whose pct_change satisfies the test
VolumeOf(Test(_)) ==
  SumSeq([ i \in 1..Len(df.rows) |->
             IF Test(df.rows[i].pct_change) THEN df.rows[i].volume ELSE 0 ])

\* C20: calculate_market_internals returns TRIN = (declines / advances) /
\* (down_volume / up_volume), to 2 decimals, when advances > 0 and
\* up_volume > 0 (the float quotient by 0.0, not a number, when down_volume
\* is 0), and TRIN = 0 when advances = 0 or up_volume = 0; the signal is
\* Extremely Bullish below 0.5, Bullish below 0.8, Neutral below 1.2,
\* Bearish below 2.0, each cutoff itself in the band above it, Extremely
\* Bearish from 2.0 on; so a table with no advancing row has TRIN = 0 and
\* the signal Extremely Bullish.
C20_Trin ==
  call.op = "calculate_market_internals" =>
    LET advances == NumRows(LAMBDA p : p > 0)
        declines == NumRows(LAMBDA p : p < 0)
        up_volume == VolumeOf(LAMBDA p : p > 0)
        down_volume == VolumeOf(LAMBDA p : p < 0)
        n == declines * up_volume
        d == advances * down_volume
        trin == call.value.trin
        signal == call.value.trin_signal
    IN  /\ (advances > 0 /\ up_volume > 0 /\ down_volume > 0) =>
             /\ trin.kind = "number"
             /\ StoredQuotient(trin.num, n, d, 100)
             /\ signal = "Extremely Bullish" <=> 100 * n < 50 * d
             /\ signal = "Bullish" <=> 50 * d <= 100 * n /\ 100 * n < 80 * d
             /\ signal = "Neutral" <=> 80 * d <= 100 * n /\ 100 * n < 120 * d
             /\ signal = "Bearish" <=> 120 * d <= 100 * n /\ 100 * n < 200 * d
             /\ signal = "Extremely Bearish" <=> 200 * d <= 100 * n
        /\ (advances > 0 /\ up_volume > 0 /\ down_volume = 0) =>
             trin.kind \in { "inf", "nan" }
        /\ (advances = 0 \/ up_volume = 0) =>
             /\ trin = Num(0)
             /\ signal = "Extremely Bullish"

\* one advancing row on a volume of 100 and one declining row on a volume
\* of 200: TRIN is exactly 0.5 and the signal is Bullish
C20_Witness ==
  /\ call.op = "calculate_market_internals"
  /\ Len(df.rows) = 2
  /\ NumRows(LAMBDA p : p > 0) = 1
  /\ NumRows(LAMBDA p : p < 0) = 1
  /\ VolumeOf(LAMBDA p : p > 0) = 100
  /\ VolumeOf(LAMBDA p : p < 0) = 200
  /\ call.value.trin = Num(50)
  /\ call.value.trin_signal = "Bullish"

\* the |pct_change| of the rows of the table, largest first
AbsChangesDescending ==
  LET n == Len(df.rows)
      a == [ i \in 1..n |-> Abs(df.rows[i].pct_change) ]
      Rank(i) == 1 + Cardinality({ j \in 1..n : a[j] > a[i] \/ (a[j] = a[i] /\ j < i) })
  IN  [ p \in 1..n |-> a[CHOOSE i \in 1..n : Rank(i) = p] ]

\* C23: on a table with rows calculate_concentration_risk reports
\* 100 * (sum of the floor(n / 10) largest |pct_change|) / (sum of all
\* |pct_change|), a number in [0, 100], with the level High above 50,
\* Moderate above 35 and Low otherwise, also when the table has fewer than
\* 10 rows and when every pct_change is 0.
C23_ConcentrationDefined ==
  (call.op = "calculate_concentration_risk" /\ Len(df.rows) > 0) =>
    LET n == Len(df.rows)
        sorted == AbsChangesDescending
        top == SumSeq(SubSeq(sorted, 1, n \div 10))
        total == SumSeq(sorted)
        pct == call.value.concentration_pct
        level == call.value.risk_level
    IN  /\ call.value.kind = "dict"
        /\ pct.kind = "number"
        /\ pct.num >= 0 /\ pct.num <= 1000
        /\ total > 0 => StoredQuotient(pct.num, 100 * top, total, 10)
        /\ level = "HIGH RISK - Very narrow market" <=> 100 * top > 50 * total
        /\ level = "MODERATE RISK - Somewhat narrow" <=>
             (100 * top > 35 * total /\ 100 * top <= 50 * total)
        /\ level = "LOW RISK - Broad participation" <=> 100 * top <= 35 * total

\* C25: on a table with rows calculate_market_internals returns a TRIN that
\* is a finite number, also when some row advances on a positive volume
\* and the declining volume is 0.
C25_TrinFinite ==
  (call.op = "calculate_market_internals" /\ Len(df.rows) > 0) =>
    /\ call.value.kind = "dict"
    /\ call.value.trin.kind = "number"

\* C28: on a classified table the three up buckets of
\* calculate_magnitude_analysis together count the Strong Bull and Weak
\* Bull rows, and the three down buckets together count the Strong Bear and
\* Weak Bear rows, also when a pct_change is exactly +STRONG_MOVE or
\* -STRONG_MOVE.
C28_BucketsMatchCategories ==
  (Classified /\ magnitude_data # << >>) =>
    LET m == magnitude_data IN
    /\ m.explosive_up + m.strong_up + m.moderate_up
         = NumCategory("Strong Bull") + NumCategory("Weak Bull")
    /\ m.explosive_down + m.strong_down + m.moderate_down
         = NumCategory("Strong Bear") + NumCategory("Weak Bear")

\* the rows of table t for the volatility index, and the other rows
VixRows(t) == SelectSeq(t.rows, LAMBDA r : r.symbol = "^INDIAVIX")
EquityRows(t) == SelectSeq(t.rows, LAMBDA r : r.symbol # "^INDIAVIX")

\* the category of the first-match rule, and its weight in the score
RuleCategory(p, v) ==
  IF p > STRONG_MOVE THEN (IF v > VOLUME_MULTIPLIER THEN "Strong Bull" ELSE "Weak Bull")
  ELSE IF p < -STRONG_MOVE THEN (IF v > VOLUME_MULTIPLIER THEN "Strong Bear" ELSE "Weak Bear")
  ELSE "Neutral"
CategoryWeight(cat) ==
  CASE cat = "Strong Bull" -> 2 [] cat = "Weak Bull" -> 1
    [] cat = "Strong Bear" -> -2 [] cat = "Weak Bear" -> -1 [] OTHER -> 0
CategoryKey(cat) ==
  CASE cat = "Strong Bull" -> "strong_bulls" [] cat = "Weak Bull" -> "weak_bulls"
    [] cat = "Strong Bear" -> "strong_bears" [] cat = "Weak Bear" -> "weak_bears"
    [] OTHER -> "neutral"
RECURSIVE SumWeights(_)
SumWeights(rows) ==
  IF rows = << >> THEN 0
  ELSE CategoryWeight(rows[1].category) + SumWeights(Tail(rows))

\* C30: a '^INDIAVIX' row of the fetched table is removed by no step of the
\* analysis; it is classified by the same rule as an equity, counted in the
\* count of its category, in the total, in the breadth score and in the
\* magnitude buckets, and it is a member of no sector.
C30_IndexRowCounted ==
  [][ VixRows(df) # << >> =>
        LET vix == VixRows(df')
            equities == EquityRows(df')
            cat == vix[1].category
            InBucket(r) ==
              \/ r.pct_change >= STRONG_MOVE
              \/ r.pct_change <= -STRONG_MOVE /\ r.pct_change # -EXPLOSIVE_MOVE
        IN  /\ Len(vix) = Len(VixRows(df))
            /\ Len(df'.rows) = Len(df.rows)
            /\ "category" \in df'.columns =>
                 cat = RuleCategory(vix[1].pct_change, vix[1].volume_ratio)
            /\ breadth_data' # << >> =>
                 /\ breadth_data'.total = 1 + Len(equities)
                 /\ breadth_data'[CategoryKey(cat)] =
                      1 + Len(SelectSeq(equities, LAMBDA r : r.category = cat))
                 /\ StoredQuotient(breadth_data'.score,
                                   CategoryWeight(cat) + SumWeights(equities),
                                   1 + Len(equities), SCORE_UNITS)
            /\ magnitude_data' # << >> =>
                 magnitude_data'.explosive_up + magnitude_data'.strong_up
                   + magnitude_data'.moderate_up + magnitude_data'.explosive_down
                   + magnitude_data'.strong_down + magnitude_data'.moderate_down
                   = Len(SelectSeq(vix, InBucket)) + Len(SelectSeq(equities, InBucket))
            /\ sector_data' # << >> =>
                 \A s \in SectorNames :
                   /\ "^INDIAVIX" \notin SECTORS[s]
                   /\ s \in DOMAIN sector_data'.sectors =>
                        sector_data'.sectors[s].total =
                          Len(SelectSeq(equities, LAMBDA r : r.symbol \in SECTORS[s]))
    ]_vars

\* the index row is a Strong Bull next to one neutral bank stock: the score
\* is 2 / 2, and the only sector with an entry is the bank's
C30_Witness ==
  /\ Len(df.rows) = 2
  /\ "category" \in df.columns
  /\ VixRows(df) # << >>
  /\ VixRows(df)[1].category = "Strong Bull"
  /\ EquityRows(df)[1].category = "Neutral"
  /\ breadth_data # << >>
  /\ breadth_data.total = 2
  /\ breadth_data.strong_bulls = 1
  /\ breadth_data.score = 1000
  /\ sector_data # << >>
  /\ sector_data.total_count = 1
  /\ magnitude_data # << >>
  /\ magnitude_data.strong_up = 1

\* C26: whenever an entry point calls classify_regime, classify_stocks,
\* calculate_breadth_score and calculate_sector_breadth have run before on
\* the same analyzer, and the call returns a regime instead of raising.
C26_RegimeInputsReady ==
  /\ At("classify_regime") =>
       /\ "category" \in df.columns
       /\ breadth_data # << >>
       /\ sector_data # << >>
  /\ call.op = "classify_regime" =>
       /\ call.value.kind = "tuple"
       /\ regime # "None"

\* C27: in every entry point get_moving_average, get_trend and
\* detect_divergence return before the run's own record is saved: a step
\* in which one of them returns starts from a state in which the run has
\* saved nothing, so the record the run saves is never among those they
\* read.
C27_ReadsBeforeSave ==
  [][ (run'.at # run.at /\ call'.op \in { "get_moving_average", "get_trend",
                                          "detect_divergence" })
        => run.saved = << >> ]_vars

\* the record a save_score call in progress is saving
RecordOf(writer) ==
  [ date |-> strftime(writer.date), score |-> writer.score,
    regime |-> writer.regime ]

\* C24: save_score loads and dumps without a lock.  With one writer the
\* record of a completed save_score(d, s, r) is the last record of the
\* file; with two writers every state of the file still has no date twice
\* and at most HISTORY_DAYS records, and the record at its end is that of
\* the call that dumped last.
C24_UnlockedSave ==
  /\ file.state = "json" =>
       /\ \A i, j \in 1..Len(file.records) :
            i # j => file.records[i].date # file.records[j].date
       /\ Len(file.records) <= HISTORY_DAYS
  /\ (DOMAIN writers = { 1 } /\ writers[1].at = "done") =>
       /\ file.state = "json"
       /\ Newest(file.records) = RecordOf(writers[1])
  /\ call.op = "save_score" =>
       /\ file.state = "json"
       /\ Newest(file.records) = SavedRecord(call.args)

\* the lost update: two calls for different dates both loaded the store
\* before either dumped, both have returned, and the file holds the record
\* of the second one only
C24_Witness ==
  /\ DOMAIN writers = { 1, 2 }
  /\ writers[1].at = "done"
  /\ writers[2].at = "done"
  /\ writers[1].history = writers[2].history
  /\ strftime(writers[1].date) # strftime(writers[2].date)
  /\ call.op = "save_score"
  /\ SavedRecord(call.args) = RecordOf(writers[2])
  /\ RecordOf(writers[2]) \in { file.records[i] : i \in 1..Len(file.records) }
  /\ strftime(writers[1].date) \notin Dates(file.records)

\* C29: once fetch_all has run, and after any retry_failed_stocks calls,
\* every symbol of the stock list is either in one row of the data table or
\* once in failed_stocks, never in both, and no symbol has two rows.
C29_SymbolsPartitioned ==
  df # NoData =>
    LET NumRowsOf(sym) ==
          Cardinality({ i \in 1..Len(df.rows) : df.rows[i].symbol = sym })
        NumFailed(sym) ==
          Cardinality({ i \in 1..Len(failed_stocks) : failed_stocks[i] = sym })
    IN  /\ \A sym \in StockSet : NumRowsOf(sym) + NumFailed(sym) = 1
        /\ \A i \in 1..Len(df.rows) : df.rows[i].symbol \in StockSet
        /\ \A i \in 1..Len(failed_stocks) : failed_stocks[i] \in StockSet

\* the first symbol failed in fetch_all and was recovered by a retry of two
\* passes, so its row comes last; another symbol failed in every pass
C29_Witness ==
  /\ df # NoData
  /\ call.op = "retry_failed_stocks"
  /\ call.args.max_retries = 2
  /\ Len(df.rows) = Len(stock_list) - 1
  /\ df.rows[Len(df.rows)].symbol = stock_list[1]
  /\ failed_stocks = << stock_list[3] >>

(***************************************************************************)
(* Properties of the fear-greed index                                      *)
(***************************************************************************)
FearGreedCall == call.op = "calculate_fear_greed_index"

\* C21 as stated: a 3-day breadth average of exactly 0.8 gives the breadth
\* sub-score of the higher band, raw 97.5, not raw 87.
C21_BoundaryHigherBand ==
  (FearGreedCall /\ call.args.breadth_3day = 800) =>
    call.value.components.c1_raw = 975

\* C21 as amended: a 3-day breadth average of exactly 0.8 gives raw 87, the
\* band from 0.6 up; raw 97.5 is given exactly when the average is strictly
\* above 0.8.
C21_BoundaryLowerBand ==
  FearGreedCall =>
    /\ call.args.breadth_3day = 800 => call.value.components.c1_raw = 870
    /\ call.value.components.c1_raw = 975 <=> call.args.breadth_3day > 800

\* the index computed for a 3-day breadth average of exactly 0.8
C21_Witness ==
  /\ FearGreedCall
  /\ call.args.breadth_3day = 800
  /\ call.value.components.c1_raw = 870
  /\ call.value.components.c1_score = 34800

\* C22: total_index = 0.40 c1_raw + 0.15 c2_raw + 0.25 c3_raw + 0.10 c4_raw
\* + 0.10 c5_raw, each raw score a value of its step table; the total lies
\* in [0, 100] and the regime is the one of the 8 whose inclusive lower
\* cutoff 90/75/60/50/40/25/10 (none for PANIC) is the highest the total
\* reaches.
C22_FearGreedTotal ==
  FearGreedCall =>
    LET c == call.value.components
        total == call.value.total_index
        Cutoff == [ r \in { "EXTREME GREED", "GREED", "MODERATE GREED",
                            "NEUTRAL", "MILD FEAR", "FEAR", "EXTREME FEAR",
                            "PANIC" } |->
                    CASE r = "EXTREME GREED" -> 90000
                      [] r = "GREED" -> 75000
                      [] r = "MODERATE GREED" -> 60000
                      [] r = "NEUTRAL" -> 50000
                      [] r = "MILD FEAR" -> 40000
                      [] r = "FEAR" -> 25000
                      [] r = "EXTREME FEAR" -> 10000
                      [] r = "PANIC" -> 0 ]
    IN  /\ c.c1_raw \in { 975, 870, 720, 595, 495, 395, 295, 170, 45 }
        /\ c.c2_raw \in { 1000, 920, 770, 620, 495, 370, 220, 70 }
        /\ c.c3_raw \in { 950, 820, 670, 545, 445, 320, 170, 45 }
        /\ c.c4_raw \in { 1000, 850, 700, 550, 450, 300, 150, 0 }
        /\ c.c5_raw \in { 1000, 920, 770, 620, 470, 320, 170 }
        /\ total = 40 * c.c1_raw + 15 * c.c2_raw + 25 * c.c3_raw
                     + 10 * c.c4_raw + 10 * c.c5_raw
        /\ total >= 0 /\ total <= 100000
        /\ call.value.regime \in DOMAIN Cutoff
        /\ \A r \in DOMAIN Cutoff :
             r = call.value.regime <=>
               /\ total >= Cutoff[r]
               /\ \A q \in DOMAIN Cutoff : total >= Cutoff[q] => Cutoff[q] <= Cutoff[r]

\* every component on its top step: total 97.75, EXTREME GREED
C22_Witness ==
  /\ FearGreedCall
  /\ call.value.components.c2_raw = 1000
  /\ call.value.components.c3_raw = 950
  /\ call.value.total_index = 97750
  /\ call.value.regime = "EXTREME GREED"

====
